---------------------------- MODULE Spec2Model ----------------------------
(***************************************************************************)
(* Ragged all-to-all thunk of the GPU runtime                              *)
(* (xla/backends/gpu/runtime/nccl_ragged_all_to_all_thunk.cc).             *)
(*                                                                         *)
(* One host thread drives one device.  The threads of one clique run the   *)
(* same transport: the point-to-point transport (RunRaggedAllToAll) or the *)
(* memory-copy transport (RunMemCpyRaggedAllToAll).  A thread's position   *)
(* in the transport is pc[d]; every call the transport makes on the        *)
(* stream, the communicator or the rendezvous is one step.                 *)
(***************************************************************************)
EXTENDS Integers, Sequences, FiniteSets, TLC

(***************************************************************************)
(* Bounds of the model.                                                    *)
(***************************************************************************)
\* ranks of one clique (comm->NumRanks())
NumRanks == 2
\* cliques (replica groups) that may run concurrently
NumCliques == 2
\* updates each rank holds for one peer
UpdatesPerReplica == 2
\* config_.ragged_row_element_size
RowElementSize == 2
\* largest send size (in rows) of one update
MaxSize == 1
\* executions of the thunk on one device
MaxExec == 2
\* calls of Initialize on one device
MaxInit == 2
\* largest input_batch of a convolution
MaxBatch == 2
\* largest feature_group_count of a convolution
MaxGroups == 2
\* largest device.numThreads() of the thread pool
MaxThreads == 2
\* largest input_batch, feature_group_count and device.numThreads() of the
\* thread-pool path of the transposed convolution, run task by task
MaxPoolBatch == 5
MaxPoolGroups == 2
MaxPoolThreads == 4
\* largest config_.num_total_updates of the loops run on their own
MaxTotalUpdates == 6
\* largest comm->NumRanks() of the loops run on their own
MaxLoopRanks == 3

\* RaggedAllToAll has 4 operands with ragged tensor metadata
kNumRaggedMetadataOperands == 4

Devices == 0 .. (NumCliques * NumRanks - 1)
Ranks == 0 .. (NumRanks - 1)
Cliques == 0 .. (NumCliques - 1)

VARIABLES
    pc,                 \* position of the host thread of each device
    status,             \* "none" | "running" | "ok" | "error": result of Execute
    result,             \* the absl::Status the last Execute or Initialize returned
    calls,              \* the calls of the current Execute or Initialize, in order
    exec,               \* executions started on each device
    inits,              \* calls of Initialize started on each device
    init_ok,            \* devices whose last Initialize returned success
    active,             \* devices whose thread runs the thunk
    comm_num_ranks,     \* comm->NumRanks(): the size of every clique
    p2p_memcpy_enabled_,    \* the caller opted in to the memory-copy transport
    local_device_count, \* params.local_device_count: devices of one host node
    device_count_,      \* the local device count Initialize stored, -1 before
    faults,             \* whether stream and communicator calls may fail
    alloc_faults,       \* whether the calls of Initialize may fail
    max_exec,           \* executions the scheduler issues per device
    mem,                \* device memory: the buffers of each device
    host,               \* ragged_metadata_allocs: four host arrays per device
    loop,               \* loop counters (i, peer) of the running loop
    rendezvous_values,  \* result of the start rendezvous, per device
    events,             \* RecordEvent calls issued on each device's events
    waited,             \* WaitFor calls issued in the current execution
    copies,             \* MemcpyD2D calls issued in the current execution
    rendezvous,         \* registry of the rendezvous primitive
    joined,             \* the rendezvous state a blocked thread has joined
    group,              \* operations queued in the open GroupStart bracket
    channel,            \* operations launched on the communicator
    p2p_output,         \* output buffers left by the point-to-point run
    host_buffer_allocs_,    \* executor -> four host allocations
    device_buffer_allocs_,  \* executor -> device scratch buffer
    start_events_,          \* executor -> start event
    end_events_,            \* executor -> end event
    num_allocs,         \* allocations made so far on each executor, by kind
    locals,             \* the cached resources Execute looked up, per device
    mutex_,             \* holder of the mutex of the buffer caches, or Free
    events_mutex_,      \* holder of the mutex of the event caches, or Free
    instr,              \* the ragged-all-to-all instruction the thunk is built from
    implementable,      \* what CheckImplementable returned for instr, if called
    conv_args,          \* the arguments EigenConv2D is called with
    algorithm,          \* the implementation EigenConv2D ran, "none" before the call
    scheduled,          \* tasks scheduled on the thread pool that have not run
    done_callbacks,     \* invocations of done_callback so far
    tasks,              \* the tasks the thread pool has started, by task_index
    writes,             \* the memory the tasks have written, by convolution
    total_updates,      \* config_.num_total_updates of the loops run on their own
    reads               \* the host metadata the loops have read, in order

\* what the thunk is configured with: never changes after construction
\* the instruction and the result of its static check
legality == << instr, implementable >>

\* the 2D convolution of the CPU runtime, which no thunk of the exchange touches
convolution == << conv_args, algorithm, scheduled, done_callbacks, tasks, writes >>

\* the loops over the updates, run on their own
iteration == << total_updates, reads >>

config == << active, comm_num_ranks, p2p_memcpy_enabled_, local_device_count,
             faults, alloc_faults, max_exec, legality, convolution, iteration >>
\* the per-device resource caches of the thunk
caches == << host_buffer_allocs_, device_buffer_allocs_, start_events_,
             end_events_, num_allocs >>

\* the two mutexes of the thunk
locks == << mutex_, events_mutex_ >>

vars == << pc, status, result, calls, exec, inits, init_ok, config, device_count_,
           locks, mem, host,
           loop, rendezvous_values, events, waited, copies, rendezvous, joined,
           group, channel, p2p_output, caches, locals >>

\* the clique (replica group) of a device: groups are consecutive device ids
CliqueOf(d) == d \div comm_num_ranks
\* clique_key.rank(global_device_id)
RankOf(d) == d % comm_num_ranks
\* the device that has rank p in clique c
DeviceOf(c, p) == c * comm_num_ranks + p

MutNumUpdatesPerReplica(num_total_updates, num_ranks) ==
    num_total_updates \div (num_ranks + 1)
\* int64_t num_updates_per_replica = num_total_updates / num_ranks;
NumUpdatesPerReplica(num_total_updates, num_ranks) ==
    num_total_updates \div num_ranks

\* int64_t idx = peer * num_updates_per_replica + i;
MutFlatIndex(peer, num_updates_per_replica, i) == i * comm_num_ranks + peer
FlatIndex(peer, num_updates_per_replica, i) == peer * num_updates_per_replica + i

\* config_.num_total_updates: the producer of the operation gives every rank
\* the same number of updates for every peer
NumTotalUpdates == NumRanks * UpdatesPerReplica
MetaIdx == 0 .. (NumTotalUpdates - 1)
\* rows of an input or output buffer: room for every update at its largest
NumRows == NumRanks * UpdatesPerReplica * MaxSize
BufElems == NumRows * RowElementSize

(***************************************************************************)
(* Device memory: a buffer is a sequence of elements, addressed from 0.    *)
(***************************************************************************)
\* collectives->Slice(buffer, element_type, offset, count)
Slice(buffer, offset, count) == [buf |-> buffer, offset |-> offset, count |-> count]

ReadAt(b, offset, count) == [k \in 1 .. count |-> b[offset + k]]

WriteAt(b, offset, data) ==
    [k \in 1 .. Len(b) |->
        IF k - 1 >= offset /\ k - 1 < offset + Len(data)
        THEN data[k - offset] ELSE b[k]]

Min(a, b) == IF a <= b THEN a ELSE b

RECURSIVE SumTo(_, _)
\* sum of f[0] .. f[k-1]
SumTo(f, k) == IF k = 0 THEN 0 ELSE f[k - 1] + SumTo(f, k - 1)

\* element k of the input buffer of device d: distinct over devices and places
InputElem(d, k) == (d + 1) * 100 + k
InputBuffer(d) == [k \in 1 .. BufElems |-> InputElem(d, k - 1)]
\* the output buffer before the exchange
InitialOutput == [k \in 1 .. BufElems |-> 0]
ZeroIndexBuffer == [k \in 1 .. NumTotalUpdates |-> 0]

(***************************************************************************)
(* Ragged metadata.  The four arrays of a device are built from the send   *)
(* sizes sz[d][idx] of every device of its clique and from the layout of   *)
(* the receivers' output buffers, so that the metadata is valid: ranges    *)
(* lie inside the buffers, the ranges written into one output buffer do    *)
(* not overlap, and recv_sizes of rank r for peer p is send_sizes of rank  *)
(* p for peer r.                                                           *)
(***************************************************************************)
\* the replica groups the producer shards the operation over: NumRanks
\* consecutive devices each
ProducerClique(d) == d \div NumRanks
ProducerRank(d) == d % NumRanks
ProducerDevice(c, p) == c * NumRanks + p

Layouts == {"ascending", "descending"}

UsedIdx == 0 .. (NumRanks * UpdatesPerReplica - 1)

\* recv_sizes of device q, as a function of the flattened index
RecvSizesOf(sz, q) ==
    [idx \in MetaIdx |->
        IF idx \in UsedIdx
        THEN sz[ProducerDevice(ProducerClique(q), idx \div UpdatesPerReplica)]
               [ProducerRank(q) * UpdatesPerReplica + (idx % UpdatesPerReplica)]
        ELSE 0]

\* the row of q's output buffer where the update of slot idx = s*n+i starts
SlotOffset(sz, layout, q, idx) ==
    LET rs == RecvSizesOf(sz, q)
        total == SumTo(rs, NumRanks * UpdatesPerReplica)
    IN  IF layout = "ascending"
        THEN SumTo(rs, idx)
        ELSE total - SumTo(rs, idx + 1)

MetadataOf(sz, layout, d) ==
    LET c == ProducerClique(d)
        r == ProducerRank(d)
        used(idx) == idx \in UsedIdx
    IN  [input_offsets |->
            [k \in 1 .. NumTotalUpdates |->
                IF used(k - 1) THEN SumTo(sz[d], k - 1) ELSE 0],
         send_sizes |->
            [k \in 1 .. NumTotalUpdates |->
                IF used(k - 1) THEN sz[d][k - 1] ELSE 0],
         output_offsets |->
            [k \in 1 .. NumTotalUpdates |->
                IF used(k - 1)
                THEN SlotOffset(sz, layout,
                                ProducerDevice(c, (k - 1) \div UpdatesPerReplica),
                                r * UpdatesPerReplica
                                  + ((k - 1) % UpdatesPerReplica))
                ELSE 0],
         recv_sizes |->
            [k \in 1 .. NumTotalUpdates |-> RecvSizesOf(sz, d)[k - 1]]]

\* the metadata in which every update is one row
UnitSizes == [d \in Devices |-> [idx \in MetaIdx |-> IF idx \in UsedIdx THEN 1 ELSE 0]]

(***************************************************************************)
(* Helpers of the actions.                                                 *)
(***************************************************************************)
\* element idx (from 0) of a host or device array
At(arr, idx) == arr[idx + 1]

\* absl::OkStatus()
OkStatus == [code |-> "OK", message |-> << >>]
\* no call has returned yet
NoStatus == [code |-> "NONE", message |-> << >>]
\* the codes of the errors a stream, communicator or allocator call returns
ErrorCodes == {"ABORTED", "INTERNAL"}

\* outcomes of the fallible call `name`: success, or an error of that call
Outcomes(name) ==
    {OkStatus} \cup
    (IF faults THEN {[code |-> c, message |-> << name >>] : c \in ErrorCodes}
     ELSE {})

\* absl::InternalError(message)
InternalError(message) == [code |-> "INTERNAL", message |-> message]

\* one call a thread has made: the callee, the slice it was given (buffer,
\* offset, count), the peer rank, the device or host array the call writes or
\* signals, the offset it writes at (copies only), the status it returned
CopyCall(name, buf, offset, count, peer, target, dst_offset, st) ==
    [call |-> name, buf |-> buf, offset |-> offset, count |-> count,
     peer |-> peer, target |-> target, dst_offset |-> dst_offset, status |-> st]

Call(name, buf, offset, count, peer, target, st) ==
    CopyCall(name, buf, offset, count, peer, target, 0, st)

\* a call with no slice and no peer
Plain(name, d, st) == Call(name, "", 0, 0, -1, d, st)

Log(d, cs) == calls' = [calls EXCEPT ![d] = @ \o cs]

\* what no step of a transport changes
fixed == << exec, inits, init_ok, config, device_count_, caches, locals, locks,
           p2p_output >>
\* the state of the memory-copy synchronisation
sync == << rendezvous_values, events, waited, copies, rendezvous, joined >>

(***************************************************************************)
(* The order of the calls of the two transports.  A thread at a label is   *)
(* about to make that call; After gives the label that follows.            *)
(***************************************************************************)
MutMemCpyProgramStart ==
    << "register", "load_metadata", "start_rendezvous", "in_start_rendezvous",
       "record_start", "wait_start", "copy", "record_end", "finish_rendezvous",
       "in_finish_rendezvous", "wait_end", "return_ok" >>
MutMemCpyProgramEnd ==
    << "register", "load_metadata", "record_start", "start_rendezvous",
       "in_start_rendezvous", "wait_start", "copy", "finish_rendezvous",
       "in_finish_rendezvous", "record_end", "wait_end", "return_ok" >>
MutMemCpyProgramNoWait ==
    << "register", "load_metadata", "record_start", "start_rendezvous",
       "in_start_rendezvous", "copy", "wait_start", "record_end",
       "finish_rendezvous", "in_finish_rendezvous", "wait_end", "return_ok" >>
MutMemCpyProgramNoEndWait ==
    << "register", "load_metadata", "record_start", "start_rendezvous",
       "in_start_rendezvous", "wait_start", "copy", "record_end",
       "finish_rendezvous", "in_finish_rendezvous", "return_ok" >>
\* the ranks do not meet again before they wait for the end events
MutMemCpyProgramNoFinish ==
    << "register", "load_metadata", "record_start", "start_rendezvous",
       "in_start_rendezvous", "wait_start", "copy", "record_end", "wait_end",
       "return_ok" >>
MutMemCpyProgramLateLoad ==
    << "register", "record_start", "start_rendezvous", "in_start_rendezvous",
       "wait_start", "copy", "load_metadata", "record_end", "finish_rendezvous",
       "in_finish_rendezvous", "wait_end", "return_ok" >>
MutMemCpyProgramRecordFirst ==
    << "register", "record_start", "load_metadata", "start_rendezvous",
       "in_start_rendezvous", "wait_start", "copy", "record_end",
       "finish_rendezvous", "in_finish_rendezvous", "wait_end", "return_ok" >>
MemCpyProgram ==
    << "register", "load_metadata", "record_start", "start_rendezvous",
       "in_start_rendezvous", "wait_start", "copy", "record_end",
       "finish_rendezvous", "in_finish_rendezvous", "wait_end", "return_ok" >>

After(program, label) ==
    program[(CHOOSE k \in 1 .. Len(program) : program[k] = label) + 1]

At_(d, label) == d \in active /\ pc[d] = label /\ status[d] = "running"

\* the error is returned inside a new internal error
MutReturnError(d, st) ==
    /\ UNCHANGED pc
    /\ status' = [status EXCEPT ![d] = "error"]
    /\ result' = [result EXCEPT ![d] =
                      [code |-> "INTERNAL", message |-> << "wrapped" >> \o st.message]]

\* TF_RETURN_IF_ERROR: the transport and Execute return the status st; pc
\* keeps the call that failed
ReturnError(d, st) ==
    /\ UNCHANGED pc
    /\ status' = [status EXCEPT ![d] = "error"]
    /\ result' = [result EXCEPT ![d] = st]

Goto(d, label) ==
    /\ pc' = [pc EXCEPT ![d] = label]
    /\ UNCHANGED << status, result >>

\* the thread stays in the loop it is in
Stay == UNCHANGED << pc, status, result >>

(***************************************************************************)
(* The rendezvous primitive (xla/service/rendezvous.h).  One instance per  *)
(* (kind, key): the call with a value and the call without one are         *)
(* different instantiations, and within one the participants are found by  *)
(* the key alone; the name is a label carried for diagnostics.  The first  *)
(* participant fixes the number of threads the instance waits for; the     *)
(* last one to arrive computes the aggregate and makes it the result of    *)
(* every participant of that round.                                        *)
(***************************************************************************)
RECURSIVE InsertByRank(_, _)
InsertByRank(v, sorted) ==
    IF sorted = << >> THEN << v >>
    ELSE IF v.rank < Head(sorted).rank
         THEN << v >> \o sorted
         ELSE << Head(sorted) >> \o InsertByRank(v, Tail(sorted))

RECURSIVE SortByRank(_)
\* absl::c_sort(values_copy) with RendezvousValue::operator<
SortByRank(values) ==
    IF values = << >> THEN << >>
    ELSE InsertByRank(Head(values), SortByRank(Tail(values)))

MutRendezvousFn(values) == values
\* rendezvous_fn: copy the values and sort them by rank
RendezvousFn(values) == SortByRank(values)

EmptyRendezvous == [arrivals |-> << >>, num_threads |-> 0, results |-> << >>]

ValuesOf(arrivals) == [k \in 1 .. Len(arrivals) |-> arrivals[k].value]

\* a thread arrives at the instance (kind, key)
RendezvousJoin(d, kind, key, name, value, num_threads) ==
    LET st == rendezvous[kind][key]
        arr == Append(st.arrivals, [name |-> name, device |-> d, value |-> value])
        n == IF st.arrivals = << >> THEN num_threads ELSE st.num_threads
        aggregate == IF kind = "start" THEN RendezvousFn(ValuesOf(arr)) ELSE << >>
    IN  /\ rendezvous' = [rendezvous EXCEPT ![kind][key] =
              IF Len(arr) = n
              THEN [arrivals |-> << >>, num_threads |-> n,
                    results |-> Append(st.results, aggregate)]
              ELSE [arrivals |-> arr, num_threads |-> n, results |-> st.results]]
        /\ joined' = [joined EXCEPT ![d] = Len(st.results) + 1]

\* the round the thread joined is complete: the call returns
RendezvousReady(d, kind, key) == Len(rendezvous[kind][key].results) >= joined[d]
RendezvousResult(d, kind, key) == rendezvous[kind][key].results[joined[d]]

(***************************************************************************)
(* RunMemCpyRaggedAllToAll, one action per call.                           *)
(***************************************************************************)
\* num_threads of both rendezvous calls: num_ranks = comm->NumRanks()
MutNumThreads == comm_num_ranks + 1
MutNumThreadsLess == comm_num_ranks - 1
NumThreads == comm_num_ranks

\* GetGpuCliqueKey(...): the key of the clique the device belongs to
MutCliqueKey(d) == 0
CliqueKey(d) == CliqueOf(d)

\* MaybeRegisterBuffers(collectives, stream.parent(), buffers, comm), then
\* TF_ASSIGN_OR_RETURN(int32_t num_ranks, comm->NumRanks())
Register(d, label, program) ==
    /\ At_(d, label)
    /\ \E st \in Outcomes("MaybeRegisterBuffers"), nr \in Outcomes("NumRanks") :
          IF st # OkStatus
          THEN /\ Log(d, << Plain("MaybeRegisterBuffers", d, st) >>)
               /\ ReturnError(d, st)
          ELSE /\ Log(d, << Plain("MaybeRegisterBuffers", d, st),
                            Plain("NumRanks", d, nr) >>)
               /\ IF nr = OkStatus THEN Goto(d, After(program, label))
                  ELSE ReturnError(d, nr)
    /\ UNCHANGED << fixed, mem, host, loop, sync, group, channel >>

\* the executor that owns the host arrays ragged_metadata_allocs of the
\* execution on d
HostExecutor(d) == locals[d].ragged_metadata_allocs[1].owner

\* the calls of LoadRaggedTensorMetadata when the first `made` copies and, with
\* drained, BlockHostUntilDone are made; the last one returns st
LoaderCalls(d, offsets_source, made, drained, st) ==
    LET sources == << "input_offsets", "send_sizes", offsets_source, "recv_sizes" >>
        last == IF drained THEN made + 1 ELSE made
    IN  [k \in 1 .. last |->
            IF k <= made
            THEN Call("Memcpy", sources[k], 0, NumTotalUpdates, -1, k - 1,
                      IF k = last THEN st ELSE OkStatus)
            ELSE Plain("BlockHostUntilDone", d, st)]

\* LoadRaggedTensorMetadata: four device-to-host copies of buffers[2..5] into
\* ragged_metadata_allocs[0..3], then BlockHostUntilDone; offsets_source is
\* buffers[4].source_buffer.  A copy that fails ends the loader with its error;
\* a failure of the drain is returned as an internal error of the loader.
LoadRaggedTensorMetadata(d, label, program, offsets_source) ==
    /\ At_(d, label)
    /\ \/ /\ Log(d, LoaderCalls(d, offsets_source, kNumRaggedMetadataOperands,
                                TRUE, OkStatus))
          /\ host' = [host EXCEPT ![HostExecutor(d)] =
                         << mem[d].input_offsets, mem[d].send_sizes,
                            mem[d][offsets_source], mem[d].recv_sizes >>]
          /\ Goto(d, After(program, label))
       \/ \E i \in 1 .. kNumRaggedMetadataOperands :
          \E st \in Outcomes("Memcpy") \ {OkStatus} :
             /\ Log(d, LoaderCalls(d, offsets_source, i, FALSE, st))
             /\ ReturnError(d, st)
             /\ UNCHANGED host
       \/ \E blocked \in Outcomes("BlockHostUntilDone") \ {OkStatus} :
             /\ Log(d, LoaderCalls(d, offsets_source, kNumRaggedMetadataOperands,
                                   TRUE, blocked))
             /\ ReturnError(d, InternalError(
                    << "Failed to complete all kernels launched on stream" >>
                       \o blocked.message))
             /\ UNCHANGED host
    /\ UNCHANGED << fixed, mem, loop, sync, group, channel >>

\* stream.RecordEvent(start_event) / stream.RecordEvent(end_event)
RecordEvent(d, label, which) ==
    /\ At_(d, label)
    /\ LET event == IF which = "start" THEN locals[d].start_event
                    ELSE locals[d].end_event
       IN  \E st \in Outcomes("RecordEvent") :
              /\ Log(d, << Call("RecordEvent", which, 0, 0, -1, event.owner, st) >>)
              /\ IF st = OkStatus
                 THEN /\ events' = [events EXCEPT ![event.owner][which] = @ + 1]
                      /\ Goto(d, After(MemCpyProgram, label))
                 ELSE /\ ReturnError(d, st)
                      /\ UNCHANGED events
    /\ UNCHANGED << fixed, mem, host, loop, rendezvous_values, waited, copies,
                    rendezvous, joined, group, channel >>

RecordStart(d) == RecordEvent(d, "record_start", "start")
RecordEnd(d) == RecordEvent(d, "record_end", "end")

\* the value a thread submits: rank, output buffer, start event, end event;
\* a buffer is named by the device that owns it
RendezvousValue(d) ==
    [rank |-> RankOf(d), output_buffer |-> d,
     start_event |-> locals[d].start_event, end_event |-> locals[d].end_event]

\* Rendezvous<std::vector<RendezvousValue>>(start_rendezvous_key, clique_key,
\*                                          rendezvous_value, num_ranks, fn)
StartRendezvous(d) ==
    /\ At_(d, "start_rendezvous")
    /\ RendezvousJoin(d, "start", CliqueKey(d),
                      << "start memcpy ragged-all-to-all", RankOf(d), CliqueKey(d) >>,
                      RendezvousValue(d), NumThreads)
    /\ Log(d, << Plain("Rendezvous", d, OkStatus) >>)
    /\ Goto(d, After(MemCpyProgram, "start_rendezvous"))
    /\ UNCHANGED << fixed, mem, host, loop, rendezvous_values, events, waited,
                    copies, group, channel >>

StartRendezvousReturn(d) ==
    /\ At_(d, "in_start_rendezvous")
    /\ RendezvousReady(d, "start", CliqueKey(d))
    /\ rendezvous_values' = [rendezvous_values EXCEPT ![d] =
                                RendezvousResult(d, "start", CliqueKey(d))]
    /\ Goto(d, After(MemCpyProgram, "in_start_rendezvous"))
    /\ UNCHANGED << fixed, calls, mem, host, loop, events, waited, copies,
                    rendezvous, joined, group, channel >>

\* for (auto& value : *rendezvous_values) stream.WaitFor(value.<which>_event)
WaitFor(d, label, which) ==
    /\ At_(d, label)
    /\ IF loop[d].peer < Len(rendezvous_values[d])
       THEN LET value == rendezvous_values[d][loop[d].peer + 1]
                event == IF which = "start" THEN value.start_event
                         ELSE value.end_event
            IN  \E st \in Outcomes("WaitFor") :
                   /\ Log(d, << Call("WaitFor", which, 0, 0, loop[d].peer,
                                     event.owner, st) >>)
                   /\ IF st = OkStatus
                      THEN /\ waited' = [waited EXCEPT
                                            ![d][which][event.owner] = @ + 1]
                           /\ loop' = [loop EXCEPT ![d].peer = @ + 1]
                           /\ Stay
                      ELSE /\ ReturnError(d, st)
                           /\ UNCHANGED << waited, loop >>
       ELSE /\ loop' = [loop EXCEPT ![d] = [i |-> 0, peer |-> 0]]
            /\ Goto(d, After(MemCpyProgram, label))
            /\ UNCHANGED << waited, calls >>
    /\ UNCHANGED << fixed, mem, host, rendezvous_values, events, copies,
                    rendezvous, joined, group, channel >>

WaitStart(d) == WaitFor(d, "wait_start", "start")
WaitEnd(d) == WaitFor(d, "wait_end", "end")

\* the counters of `for i < num_updates_per_replica: for peer < num_ranks`
MutLoopNext(l) ==
    IF l.i + 1 < NumUpdatesPerReplica(NumTotalUpdates, comm_num_ranks)
    THEN [i |-> l.i + 1, peer |-> l.peer]
    ELSE IF l.peer + 1 < comm_num_ranks
         THEN [i |-> 0, peer |-> l.peer + 1]
         ELSE [i |-> NumUpdatesPerReplica(NumTotalUpdates, comm_num_ranks), peer |-> 0]
LoopNext(l) ==
    IF l.peer + 1 < comm_num_ranks
    THEN [i |-> l.i, peer |-> l.peer + 1]
    ELSE [i |-> l.i + 1, peer |-> 0]

\* where the copy of a pair lands: the output buffer the peer published
MutCopyTarget(d, peer) == d
CopyTarget(d, peer) == rendezvous_values[d][peer + 1].output_buffer

\* one pass of the copy loop: stream.MemcpyD2D(&dst_slice, send_slice, size)
MemcpyD2D(d) ==
    /\ At_(d, "copy")
    /\ IF loop[d].i < NumUpdatesPerReplica(NumTotalUpdates, comm_num_ranks)
       THEN LET idx == FlatIndex(loop[d].peer,
                                 NumUpdatesPerReplica(NumTotalUpdates, comm_num_ranks),
                                 loop[d].i)
                input_offsets == host[HostExecutor(d)][1]
                send_sizes == host[HostExecutor(d)][2]
                output_offsets == host[HostExecutor(d)][3]
                send_slice == Slice("input",
                                    At(input_offsets, idx) * RowElementSize,
                                    At(send_sizes, idx) * RowElementSize)
                dst == CopyTarget(d, loop[d].peer)
                dst_slice == Slice("output",
                                   At(output_offsets, idx) * RowElementSize,
                                   At(send_sizes, idx) * RowElementSize)
            IN  \E st \in Outcomes("MemcpyD2D") :
                   /\ Log(d, << CopyCall("MemcpyD2D", send_slice.buf,
                                         send_slice.offset, send_slice.count,
                                         loop[d].peer, dst, dst_slice.offset,
                                         st) >>)
                   /\ IF st = OkStatus
                      THEN /\ mem' = [mem EXCEPT ![dst].output =
                                  WriteAt(@, dst_slice.offset,
                                          ReadAt(mem[d].input, send_slice.offset,
                                                 send_slice.count))]
                           /\ copies' = [copies EXCEPT ![d] = @ + 1]
                           /\ loop' = [loop EXCEPT ![d] = LoopNext(@)]
                           /\ Stay
                      ELSE /\ ReturnError(d, st)
                           /\ UNCHANGED << mem, copies, loop >>
       ELSE /\ loop' = [loop EXCEPT ![d] = [i |-> 0, peer |-> 0]]
            /\ Goto(d, After(MemCpyProgram, "copy"))
            /\ UNCHANGED << mem, copies, calls >>
    /\ UNCHANGED << fixed, host, rendezvous_values, events, waited, rendezvous,
                    joined, group, channel >>

\* Rendezvous(finish_rendezvous_key, clique_key, num_ranks)
FinishRendezvous(d) ==
    /\ At_(d, "finish_rendezvous")
    /\ RendezvousJoin(d, "finish", CliqueKey(d),
                      << "finish memcpy ragged-all-to-all", RankOf(d), CliqueKey(d) >>,
                      << >>, NumThreads)
    /\ Log(d, << Plain("Rendezvous", d, OkStatus) >>)
    /\ Goto(d, After(MemCpyProgram, "finish_rendezvous"))
    /\ UNCHANGED << fixed, mem, host, loop, rendezvous_values, events, waited,
                    copies, group, channel >>

FinishRendezvousReturn(d) ==
    /\ At_(d, "in_finish_rendezvous")
    /\ RendezvousReady(d, "finish", CliqueKey(d))
    /\ Goto(d, After(MemCpyProgram, "in_finish_rendezvous"))
    /\ UNCHANGED << fixed, calls, mem, host, loop, sync, group, channel >>

\* return absl::OkStatus();
ReturnOk(d) ==
    /\ At_(d, "return_ok")
    /\ pc' = [pc EXCEPT ![d] = "done"]
    /\ status' = [status EXCEPT ![d] = "ok"]
    /\ result' = [result EXCEPT ![d] = OkStatus]
    /\ UNCHANGED << fixed, calls, mem, host, loop, sync, group, channel >>

MemCpyRegister(d) == Register(d, "register", MemCpyProgram)
MemCpyLoad(d) ==
    LoadRaggedTensorMetadata(d, "load_metadata", MemCpyProgram, "output_offsets")

(***************************************************************************)
(* The communicator (Communicator::Send/Recv, GpuCollectives::GroupStart/  *)
(* GroupEnd).  Calls between GroupStart and GroupEnd are queued; GroupEnd  *)
(* launches them on the stream.  Between two ranks the k-th launched send  *)
(* of one is delivered into the k-th launched receive of the other.        *)
(***************************************************************************)
\* the metadata is loaded before the offsets are resolved
MutP2PProgramLoadFirst ==
    << "p2p_register", "p2p_load_metadata", "index_group_start", "index_send_recv",
       "index_group_end", "index_block", "group_start", "send_recv", "group_end" >>
MutP2PProgramLateLoad ==
    << "p2p_register", "index_group_start", "index_send_recv", "index_group_end",
       "index_block", "group_start", "send_recv", "p2p_load_metadata",
       "group_end" >>
P2PProgram ==
    << "p2p_register", "index_group_start", "index_send_recv", "index_group_end",
       "index_block", "p2p_load_metadata", "group_start", "send_recv", "group_end" >>

NoChannel == [sends |-> << >>, recvs |-> << >>]

\* collectives->GroupStart(); in RunAllToAllOnIndexBuffer comm->NumRanks()
\* comes first
GroupStart(d, label, with_num_ranks) ==
    /\ At_(d, label)
    /\ \E nr \in IF with_num_ranks THEN Outcomes("NumRanks") ELSE {OkStatus},
          st \in Outcomes("GroupStart") :
          LET first == IF with_num_ranks THEN << Plain("NumRanks", d, nr) >>
                       ELSE << >>
          IN  IF nr # OkStatus
              THEN /\ Log(d, first)
                   /\ ReturnError(d, nr)
                   /\ UNCHANGED group
              ELSE /\ Log(d, first \o << Plain("GroupStart", d, st) >>)
                   /\ IF st = OkStatus
                      THEN /\ group' = [group EXCEPT ![d] =
                                           [open |-> TRUE, ops |-> << >>]]
                           /\ Goto(d, After(P2PProgram, label))
                      ELSE /\ ReturnError(d, st)
                           /\ UNCHANGED group
    /\ UNCHANGED << fixed, mem, host, loop, sync, channel >>

SendOp(slice, peer) == [kind |-> "send", slice |-> slice, peer |-> peer]
RecvOp(slice, peer) == [kind |-> "recv", slice |-> slice, peer |-> peer]

\* the operations of the bracket are launched: each goes to the channel
\* between this device and its peer, in the order of the calls
Launch(d, ops) ==
    [a \in Devices |-> [b \in Devices |->
        IF a = d /\ CliqueOf(b) = CliqueOf(d)
        THEN [sends |-> channel[a][b].sends \o
                  SelectSeq(ops, LAMBDA op : op.kind = "send"
                                             /\ DeviceOf(CliqueOf(d), op.peer) = b),
              recvs |-> channel[a][b].recvs \o
                  SelectSeq(ops, LAMBDA op : op.kind = "recv"
                                             /\ DeviceOf(CliqueOf(d), op.peer) = b)]
        ELSE channel[a][b]]]

\* the stream of d has no launched operation left
StreamIdle(d) ==
    \A b \in Devices : channel[d][b].sends = << >> /\ channel[d][b].recvs = << >>

\* the communicator delivers the oldest send of s to r into the oldest receive
\* r has posted for s
Transfer(s, r) ==
    /\ channel[s][r].sends # << >>
    /\ channel[r][s].recvs # << >>
    /\ LET snd == Head(channel[s][r].sends).slice
           rcv == Head(channel[r][s].recvs).slice
           data == ReadAt(mem[s][snd.buf], snd.offset, Min(snd.count, rcv.count))
       IN  mem' = [mem EXCEPT ![r][rcv.buf] = WriteAt(@, rcv.offset, data)]
    /\ channel' = [a \in Devices |-> [b \in Devices |->
          [sends |-> IF a = s /\ b = r THEN Tail(channel[a][b].sends)
                     ELSE channel[a][b].sends,
           recvs |-> IF a = r /\ b = s THEN Tail(channel[a][b].recvs)
                     ELSE channel[a][b].recvs]]]
    /\ UNCHANGED << pc, status, result, calls, fixed, host, loop, sync, group >>

\* a Send that fails does not stop the pass of the loop
MutSendThenRecv(d, send_slice, recv_slice, peer, failing, st) ==
    LET send == Call("Send", send_slice.buf, send_slice.offset, send_slice.count,
                     peer, d, IF failing = "Send" THEN st ELSE OkStatus)
        recv == Call("Recv", recv_slice.buf, recv_slice.offset, recv_slice.count,
                     peer, d, IF failing = "Recv" THEN st ELSE OkStatus)
    IN  /\ Log(d, << send, recv >>)
        /\ group' = [group EXCEPT ![d].ops =
               @ \o << SendOp(send_slice, peer), RecvOp(recv_slice, peer) >>]
        /\ IF failing = "none" THEN Stay ELSE ReturnError(d, st)

\* comm->Send(send_slice, ...) then comm->Recv(recv_slice, ...): the calls made
\* and the operations queued when both succeed, when Send fails with st, and
\* when Recv fails with st
SendThenRecv(d, send_slice, recv_slice, peer, failing, st) ==
    LET send == Call("Send", send_slice.buf, send_slice.offset, send_slice.count,
                     peer, d, IF failing = "Send" THEN st ELSE OkStatus)
        recv == Call("Recv", recv_slice.buf, recv_slice.offset, recv_slice.count,
                     peer, d, IF failing = "Recv" THEN st ELSE OkStatus)
    IN  /\ Log(d, IF failing = "Send" THEN << send >> ELSE << send, recv >>)
        /\ group' = [group EXCEPT ![d].ops =
               IF failing = "Send" THEN @
               ELSE IF failing = "Recv" THEN @ \o << SendOp(send_slice, peer) >>
               ELSE @ \o << SendOp(send_slice, peer), RecvOp(recv_slice, peer) >>]
        /\ IF failing = "none" THEN Stay ELSE ReturnError(d, st)

\* the outcomes of one Send followed by one Recv
SendRecvOutcomes ==
    {<< "none", OkStatus >>}
        \cup {<< "Send", st >> : st \in Outcomes("Send") \ {OkStatus}}
        \cup {<< "Recv", st >> : st \in Outcomes("Recv") \ {OkStatus}}

(***************************************************************************)
(* RunAllToAllOnIndexBuffer and RunRaggedAllToAll, one action per call.    *)
(***************************************************************************)
P2PRegister(d) == Register(d, "p2p_register", P2PProgram)

\* buffers[4].source_buffer once the offsets are resolved:
\* output_offsets_buffer_pair.source_buffer = output_offsets_device_buffer
MutP2POffsetsSource == "output_offsets"
P2POffsetsSource == "scratch"

IndexGroupStart(d) == GroupStart(d, "index_group_start", TRUE)

MutIndexOffset(peer, num_updates_per_replica) == peer
\* int64_t offset = peer * num_updates_per_replica;
IndexOffset(peer, num_updates_per_replica) == peer * num_updates_per_replica

\* one pass of the loop of RunAllToAllOnIndexBuffer: Send and Recv of the block
\* of num_updates_per_replica offsets of one peer
IndexSendRecv(d) ==
    /\ At_(d, "index_send_recv")
    /\ IF loop[d].peer < comm_num_ranks
       THEN LET n == NumUpdatesPerReplica(NumTotalUpdates, comm_num_ranks)
                peer == loop[d].peer
                offset == IndexOffset(peer, n)
                send_slice == Slice("output_offsets", offset, n)
                recv_slice == Slice("scratch", offset, n)
            IN  \E out \in SendRecvOutcomes :
                   /\ SendThenRecv(d, send_slice, recv_slice, peer, out[1], out[2])
                   /\ loop' = [loop EXCEPT ![d].peer =
                                  IF out[1] = "none" THEN @ + 1 ELSE @]
       ELSE /\ loop' = [loop EXCEPT ![d] = [i |-> 0, peer |-> 0]]
            /\ Goto(d, After(P2PProgram, "index_send_recv"))
            /\ UNCHANGED << group, calls >>
    /\ UNCHANGED << fixed, mem, host, sync, channel >>

\* collectives->GroupEnd(): the queued operations are launched
GroupEnd(d, label, returns) ==
    /\ At_(d, label)
    /\ \E st \in Outcomes("GroupEnd") :
          /\ Log(d, << Plain("GroupEnd", d, st) >>)
          /\ IF st = OkStatus
             THEN /\ channel' = Launch(d, group[d].ops)
                  /\ group' = [group EXCEPT ![d] = [open |-> FALSE, ops |-> << >>]]
                  /\ IF returns
                     THEN /\ pc' = [pc EXCEPT ![d] = "done"]
                          /\ status' = [status EXCEPT ![d] = "ok"]
                          /\ result' = [result EXCEPT ![d] = OkStatus]
                     ELSE Goto(d, After(P2PProgram, label))
             ELSE /\ ReturnError(d, st)
                  /\ UNCHANGED << channel, group >>
    /\ UNCHANGED << fixed, mem, host, loop, sync >>

\* TF_RETURN_IF_ERROR(collectives->GroupEnd()) of RunAllToAllOnIndexBuffer
IndexGroupEnd(d) == GroupEnd(d, "index_group_end", FALSE)

\* return stream.BlockHostUntilDone(); the host waits for the exchange of the
\* offsets to finish
IndexBlock(d) ==
    /\ At_(d, "index_block")
    /\ StreamIdle(d)
    /\ \E st \in Outcomes("BlockHostUntilDone") :
          /\ Log(d, << Plain("BlockHostUntilDone", d, st) >>)
          /\ IF st = OkStatus THEN Goto(d, After(P2PProgram, "index_block"))
             ELSE ReturnError(d, st)
    /\ UNCHANGED << fixed, mem, host, loop, sync, group, channel >>

\* output_offsets_buffer_pair.source_buffer = output_offsets_device_buffer;
\* LoadRaggedTensorMetadata(stream, buffers, ragged_metadata_allocs)
P2PLoad(d) ==
    LoadRaggedTensorMetadata(d, "p2p_load_metadata", P2PProgram, P2POffsetsSource)

MainGroupStart(d) == GroupStart(d, "group_start", FALSE)

\* one pass of the loop of RunRaggedAllToAll: Send and Recv of update i of a peer
SendRecv(d) ==
    /\ At_(d, "send_recv")
    /\ IF loop[d].i < NumUpdatesPerReplica(NumTotalUpdates, comm_num_ranks)
       THEN LET peer == loop[d].peer
                idx == FlatIndex(peer,
                                 NumUpdatesPerReplica(NumTotalUpdates, comm_num_ranks),
                                 loop[d].i)
                input_offsets == host[HostExecutor(d)][1]
                send_sizes == host[HostExecutor(d)][2]
                output_offsets == host[HostExecutor(d)][3]
                recv_sizes == host[HostExecutor(d)][4]
                send_slice == Slice("input",
                                    At(input_offsets, idx) * RowElementSize,
                                    At(send_sizes, idx) * RowElementSize)
                recv_slice == Slice("output",
                                    At(output_offsets, idx) * RowElementSize,
                                    At(recv_sizes, idx) * RowElementSize)
            IN  \E out \in SendRecvOutcomes :
                   /\ SendThenRecv(d, send_slice, recv_slice, peer, out[1], out[2])
                   /\ loop' = [loop EXCEPT ![d] =
                                  IF out[1] = "none" THEN LoopNext(@) ELSE @]
       ELSE /\ loop' = [loop EXCEPT ![d] = [i |-> 0, peer |-> 0]]
            /\ Goto(d, After(P2PProgram, "send_recv"))
            /\ UNCHANGED << group, calls >>
    /\ UNCHANGED << fixed, mem, host, sync, channel >>

\* return collectives->GroupEnd();
MainGroupEnd(d) == GroupEnd(d, "group_end", TRUE)

(***************************************************************************)
(* NcclRaggedAllToAllStartThunk::CheckImplementable: the static check of   *)
(* the instruction.  A shape has its dimensions, the minor_to_major order  *)
(* of its layout (dimension numbers from 0), its element type and whether  *)
(* its layout and type are ones the collective supports.                   *)
(***************************************************************************)
\* the operands of ragged-all-to-all: input, output, input_offsets,
\* send_sizes, output_offsets, recv_sizes
NumOperands == 6
OffsetTypes == {"S32", "S64"}

ShapeOf(dimensions, minor_to_major, element_type, supported) ==
    [dimensions |-> dimensions, minor_to_major |-> minor_to_major,
     element_type |-> element_type, supported |-> supported]

\* result shapes of rank 2 with dimensions of size 1 or 2 in either layout
ResultShapes ==
    {ShapeOf(dims, m2m, "F32", TRUE) :
        dims \in [1 .. 2 -> 1 .. 2], m2m \in {<< 1, 0 >>, << 0, 1 >>}}

\* the instructions the check is given: every operand supported or not, the
\* offsets operands of either integer width
Instructions ==
    {[operands |->
         [k \in 1 .. NumOperands |->
             ShapeOf(<< 2 >>, << 0 >>,
                     IF k = 3 THEN in_type ELSE IF k = 5 THEN out_type
                     ELSE IF k \in {4, 6} THEN "S64" ELSE "F32",
                     k \in ok)],
      shape |-> shape] :
        ok \in SUBSET (1 .. NumOperands), in_type \in OffsetTypes,
        out_type \in OffsetTypes, shape \in ResultShapes}

\* an instruction that passes the check
LegalInstr ==
    [operands |->
        [k \in 1 .. NumOperands |->
            ShapeOf(<< 2 >>, << 0 >>, IF k >= 3 THEN "S64" ELSE "F32", TRUE)],
     shape |-> ShapeOf(<< 2, 2 >>, << 1, 0 >>, "F32", TRUE)]

UnimplementedError(message) == [code |-> "UNIMPLEMENTED", message |-> message]
InvalidArgumentError(message) == [code |-> "INVALID_ARGUMENT", message |-> message]

\* IsValidOperand(shape, Thunk::kNcclRaggedAllToAll)
IsValidOperand(shape, k) ==
    IF shape.supported THEN OkStatus
    ELSE UnimplementedError(<< "IsValidOperand", k >>)

\* LayoutUtil::Major(layout, i): the i-th dimension from the most major one
Major(shape, i) == shape.minor_to_major[Len(shape.minor_to_major) - i]

\* ShapeUtil::IsEffectivelyMostMajorDimension(shape, dimension): no dimension
\* of a size other than 1 is more major than `dimension`
RECURSIVE MostMajorFrom(_, _, _)
MostMajorFrom(shape, dimension, i) ==
    IF i >= Len(shape.dimensions) THEN FALSE
    ELSE IF Major(shape, i) = dimension THEN TRUE
    ELSE IF shape.dimensions[Major(shape, i) + 1] # 1 THEN FALSE
    ELSE MostMajorFrom(shape, dimension, i + 1)

IsEffectivelyMostMajorDimension(shape, dimension) ==
    MostMajorFrom(shape, dimension, 0)

\* for (HloInstruction* operand : instr->operands())
\*   TF_RETURN_IF_ERROR(IsValidOperand(shape, Thunk::kNcclRaggedAllToAll));
RECURSIVE CheckOperands(_, _)
CheckOperands(operands, k) ==
    IF k > Len(operands) THEN OkStatus
    ELSE IF IsValidOperand(operands[k], k) # OkStatus
    THEN IsValidOperand(operands[k], k)
    ELSE CheckOperands(operands, k + 1)

\* the element type is checked before the layout
MutCheckStatus(i) ==
    IF CheckOperands(i.operands, 1) # OkStatus THEN CheckOperands(i.operands, 1)
    ELSE IF i.operands[3].element_type # "S64"
    THEN InvalidArgumentError(<< "RaggedAllToAllDecomposer only supports S64 offsets." >>)
    ELSE IF ~IsEffectivelyMostMajorDimension(i.shape, 0)
    THEN UnimplementedError(<< "ragged-all-to-all must have the ragged dimension (0) in the most major position in the layout", i.shape.minor_to_major >>)
    ELSE OkStatus
\* the lambda `status` of CheckImplementable
CheckStatus(i) ==
    IF CheckOperands(i.operands, 1) # OkStatus THEN CheckOperands(i.operands, 1)
    ELSE IF ~IsEffectivelyMostMajorDimension(i.shape, 0)
    THEN UnimplementedError(<< "ragged-all-to-all must have the ragged dimension (0) in the most major position in the layout", i.shape.minor_to_major >>)
    ELSE IF i.operands[3].element_type # "S64"
    THEN InvalidArgumentError(<< "RaggedAllToAllDecomposer only supports S64 offsets." >>)
    ELSE OkStatus

\* AddOpDescription<NcclRaggedAllToAllStartThunk>(status, instr, ...): an error
\* keeps its code and gets the description of the operation appended
AddOpDescription(st) ==
    IF st = OkStatus THEN st
    ELSE [code |-> st.code, message |-> st.message \o << "ragged-all-to-all" >>]

CheckImplementable(i) == AddOpDescription(CheckStatus(i))

\* the static check is called on the instruction
CheckLegality ==
    /\ implementable = NoStatus
    /\ implementable' = CheckImplementable(instr)
    /\ UNCHANGED << pc, status, result, calls, exec, inits, init_ok, active,
                    comm_num_ranks, p2p_memcpy_enabled_, local_device_count,
                    faults, alloc_faults, max_exec, instr, device_count_, locks,
                    mem, host, loop, sync, group, channel, p2p_output, caches,
                    locals, convolution, iteration >>

(***************************************************************************)
(* The 2D convolution of the CPU runtime                                   *)
(* (xla/backends/cpu/runtime/convolution_thunk_internal.h), on a thread    *)
(* pool device under the thunk runtime: EigenConv2D schedules tasks on the *)
(* pool and returns; the tasks invoke done_callback when they run.         *)
(***************************************************************************)
\* a size_t that may exceed 2^31 - 1 is kept as a count of KiB and a rest of
\* bytes: the product count * factor of a count below 2^31 and a small factor
Product(count, factor) ==
    [kib |-> (count \div 1024) * factor + ((count % 1024) * factor) \div 1024,
     rest |-> ((count % 1024) * factor) % 1024]

\* a > b for two sizes
Exceeds(a, b) == a.kib > b.kib \/ (a.kib = b.kib /\ a.rest > b.rest)

\* static_cast<size_t>(8) << 30: 8 GiB
kMaxConvMatrixSize == [kib |-> 8 * (2 ^ 20), rest |-> 0]

\* Eigen::numext::div_ceil
div_ceil(a, b) == (a + b - 1) \div b

CanUseCustomTransposedConv(x_stride, y_stride, lhs_x_dilation, lhs_y_dilation, rhs_x_dilation, rhs_y_dilation) ==
    /\ (lhs_x_dilation > 1 \/ lhs_y_dilation > 1)
    /\ rhs_x_dilation = 1
    /\ rhs_y_dilation = 1
    /\ x_stride = 1
    /\ y_stride = 1

\* as many tasks as the pool has threads
MutGetEigenTransposedConv2DNumTasks(device, input_batch, feature_group_count) ==
    device
\* device stands for device.numThreads()
GetEigenTransposedConv2DNumTasks(device, input_batch, feature_group_count) ==
    LET number_of_convolutions == input_batch * feature_group_count
        max_tasks == device
        task_size == div_ceil(number_of_convolutions, max_tasks)
    IN  div_ceil(number_of_convolutions, task_size)

\* the number of tasks scheduled for EigenConv2D, as the caller computes it
GetEigenConv2DNumTasks(device, input_batch, x_stride, y_stride, lhs_x_dilation, lhs_y_dilation, rhs_x_dilation, rhs_y_dilation, feature_group_count) ==
    IF CanUseCustomTransposedConv(x_stride, y_stride, lhs_x_dilation,
                                  lhs_y_dilation, rhs_x_dilation, rhs_y_dilation)
    THEN GetEigenTransposedConv2DNumTasks(device, input_batch, feature_group_count)
    ELSE feature_group_count

\* ScheduleAll(&device, n, f): the tasks 0 .. n - 1, each running f once;
\* callbacks[task_index] is the number of times f invokes done_callback
ScheduleAll(n, callbacks) ==
    {[task_index |-> t, callbacks |-> callbacks[t]] : t \in 0 .. (n - 1)}

\* EigenTransposedConv2D with the arguments c: what it returns and the tasks
\* it has scheduled when it returns
EigenTransposedConv2D(c) ==
    LET input_image_size == c.input_x * c.input_y
        kernel_total_size == c.kernel_x * c.kernel_y * c.kernel_filters
        num_tasks == GetEigenTransposedConv2DNumTasks(c.device, c.input_batch,
                                                      c.feature_group_count)
        conv_matrix_size_per_task ==
            (input_image_size * kernel_total_size) \div c.feature_group_count
        \* buffer_size * sizeof(ScalarType)
        buffer_bytes == Product(conv_matrix_size_per_task, num_tasks * c.size_of)
        \* every task convolves its chunk and calls callback() once
        schedule_all ==
            ScheduleAll(num_tasks, [task_index \in 0 .. (num_tasks - 1) |-> 1])
    IN  IF Exceeds(buffer_bytes, kMaxConvMatrixSize)
        THEN [returned |-> FALSE, tasks |-> {}]
        ELSE [returned |-> TRUE, tasks |-> schedule_all]

\* EigenGenericConv2D with the arguments c: the tasks it has scheduled when
\* it returns; a task assigns the output of every feature group of its range
\* with output.device(device, done_callback), which invokes done_callback
\* once
EigenGenericConv2D(c) ==
    LET max_tasks == c.device
        task_size == div_ceil(c.feature_group_count, max_tasks)
        num_tasks == div_ceil(c.feature_group_count, task_size)
        start(task_index) == task_index * task_size
        end(task_index) == Min(start(task_index) + task_size, c.feature_group_count)
    IN  ScheduleAll(num_tasks,
                    [task_index \in 0 .. (num_tasks - 1) |->
                        Cardinality(start(task_index) .. (end(task_index) - 1))])

\* everything but the convolution
exchange == << pc, status, result, calls, exec, inits, init_ok, active,
               comm_num_ranks, p2p_memcpy_enabled_, local_device_count, faults,
               alloc_faults, max_exec, legality, device_count_, locks, mem, host,
               loop, rendezvous_values, events, waited, copies, rendezvous,
               joined, group, channel, p2p_output, host_buffer_allocs_,
               device_buffer_allocs_, start_events_, end_events_, num_allocs,
               locals >>

\* the call of EigenConv2D, up to its return
EigenConv2D ==
    /\ algorithm = "none"
    /\ LET c == conv_args
           transposed == EigenTransposedConv2D(c)
       IN  IF /\ CanUseCustomTransposedConv(c.x_stride, c.y_stride,
                                            c.lhs_x_dilation, c.lhs_y_dilation,
                                            c.rhs_x_dilation, c.rhs_y_dilation)
              /\ transposed.returned
           THEN /\ algorithm' = "transposed"
                /\ scheduled' = transposed.tasks
           ELSE \* transposed convolution failed, or does not apply
                /\ algorithm' = "generic"
                /\ scheduled' = EigenGenericConv2D(c)
    /\ UNCHANGED << conv_args, done_callbacks, tasks, writes, exchange, iteration >>

\* the thread pool runs one of the scheduled tasks
RunTask ==
    \E t \in scheduled :
        /\ scheduled' = scheduled \ {t}
        /\ done_callbacks' = done_callbacks + t.callbacks
        /\ UNCHANGED << conv_args, algorithm, tasks, writes, exchange, iteration >>

\* the shapes of the convolutions: a small image and a 1024 x 1024 image,
\* a 4 x 4 kernel with 96 filters
ConvShapes ==
    {[input_x |-> side, input_y |-> side, kernel_x |-> 4, kernel_y |-> 4,
      kernel_filters |-> 96] : side \in {32, 1024}}

\* sizeof(ScalarType) of the instantiations: Eigen::half and float
ScalarSizes == {2, 4}

\* strides and dilations
Steps == {1, 2}

\* the arguments of a call of EigenConv2D
ConvArgs ==
    {[device |-> threads, input_batch |-> batch, feature_group_count |-> groups,
      input_x |-> shape.input_x, input_y |-> shape.input_y,
      kernel_x |-> shape.kernel_x, kernel_y |-> shape.kernel_y,
      kernel_filters |-> shape.kernel_filters, size_of |-> size,
      x_stride |-> st[1], y_stride |-> st[2], lhs_x_dilation |-> st[3],
      lhs_y_dilation |-> st[4], rhs_x_dilation |-> st[5],
      rhs_y_dilation |-> st[6]] :
        threads \in 1 .. MaxThreads, batch \in 1 .. MaxBatch,
        groups \in 1 .. MaxGroups, shape \in ConvShapes, size \in ScalarSizes,
        st \in [1 .. 6 -> Steps]}

\* the loops of the transports have not been run on their own
NoIteration ==
    /\ total_updates = NumTotalUpdates
    /\ reads = << >>

\* no convolution has been called
NoConvolution ==
    /\ conv_args = CHOOSE c \in ConvArgs :
           /\ c.device = 1 /\ c.input_batch = 1 /\ c.feature_group_count = 1
           /\ c.input_x = 32 /\ c.size_of = 4
           /\ \A f \in {"x_stride", "y_stride", "lhs_x_dilation", "lhs_y_dilation",
                        "rhs_x_dilation", "rhs_y_dilation"} : c[f] = 1
    /\ algorithm = "none"
    /\ scheduled = {}
    /\ done_callbacks = 0
    /\ tasks = << >>
    /\ writes = {}

(***************************************************************************)
(* The selection of the transport.                                         *)
(***************************************************************************)
\* config_.config.replica_groups: the ids of the members of every replica
\* group, in the order of their ranks
replica_groups ==
    [c \in 0 .. (Cardinality(Devices) \div comm_num_ranks - 1) |->
        [p \in 0 .. (comm_num_ranks - 1) |-> DeviceOf(c, p)]]

\* every group is compared with the node of the first group
MutIsLocal(device_count) ==
    LET node_id == replica_groups[0][0] \div device_count
    IN  \A g \in DOMAIN replica_groups :
            \A m \in DOMAIN replica_groups[g] :
                replica_groups[g][m] \div device_count = node_id
\* is_local(), device_count_ being device_count (not -1):
\*   for (const auto& replica_group : config_.config.replica_groups) {
\*     const int64_t node_id = replica_group.replica_ids().at(0) / device_count_;
\*     if (!absl::c_all_of(replica_group.replica_ids(), [..](const int64_t rank) {
\*           return rank / device_count_ == node_id; })) return false; }
\*   return true;
is_local(device_count) ==
    \A g \in DOMAIN replica_groups :
        LET node_id == replica_groups[g][0] \div device_count
        IN  \A m \in DOMAIN replica_groups[g] :
                replica_groups[g][m] \div device_count = node_id

\* should_use_memcpy(): the caller opted in and the replica groups are local
should_use_memcpy(device_count) ==
    p2p_memcpy_enabled_ /\ is_local(device_count)

\* the transport an initialized thunk selects
use_memcpy == should_use_memcpy(local_device_count)

(***************************************************************************)
(* The per-device caches and NcclRaggedAllToAllStartThunk::Initialize.     *)
(* A cache maps an executor (a device) to the resource it owns; a resource *)
(* is named by its owner and the serial number of its allocation.          *)
(***************************************************************************)
Handle(d, k) == [owner |-> d, serial |-> k]
\* the cache has no entry for the key
NoEntry == [owner |-> -1, serial |-> 0]
\* nullptr
Null == [owner |-> -1, serial |-> -1]
\* no thread holds the mutex
Free == -1

NoAllocs == [host |-> 0, device |-> 0, event |-> 0]
NoLocals ==
    [ragged_metadata_allocs |-> << >>, output_offsets_device_buffer |-> Null,
     start_event |-> Null, end_event |-> Null]

\* the caches after a successful Initialize of every device of `devices`
InitializedCaches(devices, memcpy) ==
    [host_buffer_allocs_ |->
        [d \in Devices |->
            IF d \in devices
            THEN [k \in 1 .. kNumRaggedMetadataOperands |-> Handle(d, k)]
            ELSE << >>],
     device_buffer_allocs_ |->
        [d \in Devices |-> IF d \in devices THEN Handle(d, 1) ELSE NoEntry],
     start_events_ |->
        [d \in Devices |-> IF d \in devices /\ memcpy THEN Handle(d, 1) ELSE NoEntry],
     end_events_ |->
        [d \in Devices |-> IF d \in devices /\ memcpy THEN Handle(d, 2) ELSE NoEntry],
     num_allocs |->
        [d \in Devices |->
            IF d \in devices
            THEN [host |-> kNumRaggedMetadataOperands, device |-> 1,
                  event |-> IF memcpy THEN 2 ELSE 0]
            ELSE NoAllocs]]

\* the steps of Initialize that can fail, in the order of the code: the
\* Initialize of the base class, the four host allocations, the device
\* allocation, the creation of the start event and of the end event
InitSteps == 0 .. (kNumRaggedMetadataOperands + 3)
NoFailure == kNumRaggedMetadataOperands + 4

MutEventMissing(cache, d) == FALSE
\* the event is created whether or not the cache has one
MutEventAlwaysMissing(cache, d) == TRUE
\* !start_events_.count(executor), !end_events_.count(executor)
EventMissing(cache, d) == cache[d] = NoEntry

MutHostMissing(d) == TRUE
\* !host_buffer_allocs_.contains(params.executor)
HostMissing(d) == host_buffer_allocs_[d] = << >>

Initialize(d) ==
    /\ d \in active
    /\ pc[d] \in {"idle", "done"}
    /\ status[d] \in {"none", "ok"}
    /\ inits[d] < MaxInit
    /\ inits' = [inits EXCEPT ![d] = @ + 1]
    /\ \E fail \in (IF alloc_faults THEN InitSteps ELSE {}) \cup {NoFailure} :
          LET n == num_allocs[d]
              Err(name) == [code |-> "RESOURCE_EXHAUSTED", message |-> << name >>]
              \* TF_RETURN_IF_ERROR(NcclCollectiveThunk::Initialize(params))
              base_fails == fail = 0 /\ d \notin init_ok
              \* if (!host_buffer_allocs_.contains(params.executor))
              host_tried == ~base_fails /\ HostMissing(d)
              host_fails == host_tried /\ fail \in 1 .. kNumRaggedMetadataOperands
              host_made == IF ~host_tried THEN 0
                           ELSE IF host_fails THEN fail - 1
                           ELSE kNumRaggedMetadataOperands
              host_ok == ~base_fails /\ ~host_fails
              \* if (!device_buffer_allocs_.contains(params.executor))
              dev_tried == host_ok /\ device_buffer_allocs_[d] = NoEntry
              dev_fails == dev_tried /\ fail = kNumRaggedMetadataOperands + 1
              dev_ok == host_ok /\ ~dev_fails
              \* if (should_use_memcpy()) { if (!start_events_.count(executor))
              memcpy == dev_ok /\ should_use_memcpy(local_device_count)
              start_tried == memcpy /\ EventMissing(start_events_, d)
              start_fails == start_tried /\ fail = kNumRaggedMetadataOperands + 2
              end_tried == memcpy /\ ~start_fails /\ EventMissing(end_events_, d)
              end_fails == end_tried /\ fail = kNumRaggedMetadataOperands + 3
              start_made == IF start_tried /\ ~start_fails THEN 1 ELSE 0
              end_made == IF end_tried /\ ~end_fails THEN 1 ELSE 0
              st == IF base_fails THEN Err("NcclCollectiveThunk::Initialize")
                    ELSE IF host_fails THEN Err("HostMemoryAllocate")
                    ELSE IF dev_fails
                         THEN InternalError(
                                 << "Failed to allocate output offsets buffer." >>)
                    ELSE IF start_fails \/ end_fails THEN Err("CreateEvent")
                    ELSE OkStatus
          IN  /\ host_buffer_allocs_' =
                    [host_buffer_allocs_ EXCEPT ![d] =
                        IF host_tried /\ ~host_fails
                        THEN [k \in 1 .. kNumRaggedMetadataOperands |->
                                 Handle(d, n.host + k)]
                        ELSE @]
              /\ device_buffer_allocs_' =
                    [device_buffer_allocs_ EXCEPT ![d] =
                        IF dev_tried /\ ~dev_fails THEN Handle(d, n.device + 1)
                        ELSE @]
              /\ start_events_' =
                    [start_events_ EXCEPT ![d] =
                        IF start_made = 1 THEN Handle(d, n.event + 1) ELSE @]
              /\ end_events_' =
                    [end_events_ EXCEPT ![d] =
                        IF end_made = 1 THEN Handle(d, n.event + start_made + 1)
                        ELSE @]
              /\ num_allocs' =
                    [num_allocs EXCEPT ![d] =
                        [host |-> n.host + host_made,
                         device |-> n.device + (IF dev_tried /\ ~dev_fails
                                                THEN 1 ELSE 0),
                         event |-> n.event + start_made + end_made]]
              /\ calls' = [calls EXCEPT ![d] = << Plain("Initialize", d, st) >>]
              /\ result' = [result EXCEPT ![d] = st]
              /\ init_ok' = IF st = OkStatus THEN init_ok \cup {d} ELSE init_ok
              \* device_count_ = params.local_device_count;
              /\ device_count_' = IF base_fails THEN device_count_
                                  ELSE local_device_count
    /\ UNCHANGED << pc, status, exec, config, locals, locks, mem, host, loop, sync,
                    group, channel, p2p_output >>

(***************************************************************************)
(* NcclRaggedAllToAllStartThunk::RunNcclCollective: one execution of the   *)
(* thunk on a device.  It resolves the buffers, looks the device's cached  *)
(* resources up and dispatches to the transport that should_use_memcpy()   *)
(* selects.  The runtime executes a thunk on a device only after an        *)
(* Initialize of the thunk on that device has returned success.            *)
(***************************************************************************)
\* the lookup replaces the cached resource by a new one
\* every stream is taken for a stream of executor 0
MutStreamParent(d) == 0
\* stream.parent(): the executor of the stream of the thread, the key of the
\* caches
StreamParent(d) == d

\* the branch on should_use_memcpy() is lost
MutTransport(memcpy) == Head(MemCpyProgram)
\* if (should_use_memcpy()) { ... return RunMemCpyRaggedAllToAll(...); }
\* return RunRaggedAllToAll(...);
Transport(memcpy) == IF memcpy THEN Head(MemCpyProgram) ELSE Head(P2PProgram)

MutLookup(cache, d) == Handle(d, cache[d].serial + 1)
\* start_events_[stream.parent()].get(): operator[] of the map inserts a null
\* entry for a key that has none
Lookup(cache, d) == IF cache[d] = NoEntry THEN Null ELSE cache[d]

Execute(d) ==
    /\ d \in active
    /\ d \in init_ok
    /\ pc[d] \in {"idle", "done"}
    /\ status[d] \in {"none", "ok"}
    /\ exec[d] < max_exec
    /\ exec' = [exec EXCEPT ![d] = @ + 1]
    /\ loop' = [loop EXCEPT ![d] = [i |-> 0, peer |-> 0]]
    /\ \E convert \in Outcomes("ConvertToDeviceBuffers"),
          collectives \in Outcomes("GetGpuCollectives"),
          clique_key \in Outcomes("GetGpuCliqueKey") :
          LET first == IF convert # OkStatus
                       THEN << Plain("ConvertToDeviceBuffers", d, convert) >>
                       ELSE << Plain("ConvertToDeviceBuffers", d, convert),
                               Plain("GetGpuCollectives", d, collectives) >>
              resolved == convert = OkStatus /\ collectives = OkStatus
              \* CHECK(it != host_buffer_allocs_.end());
              \* CHECK(jt != device_buffer_allocs_.end());
              executor == StreamParent(d)
              found == /\ host_buffer_allocs_[executor] # << >>
                       /\ device_buffer_allocs_[executor] # NoEntry
              \* CHECK_NE(device_count_, -1) of is_local()
              counted == ~p2p_memcpy_enabled_ \/ device_count_ # -1
              memcpy == /\ resolved /\ found /\ counted
                        /\ should_use_memcpy(device_count_)
          IN  /\ calls' = [calls EXCEPT ![d] =
                     IF memcpy
                     THEN first \o << Plain("GetGpuCliqueKey", d, clique_key) >>
                     ELSE first]
              /\ start_events_' = IF memcpy
                                  THEN [start_events_ EXCEPT ![executor] =
                                           Lookup(start_events_, executor)]
                                  ELSE start_events_
              /\ end_events_' = IF memcpy
                                THEN [end_events_ EXCEPT ![executor] =
                                         Lookup(end_events_, executor)]
                                ELSE end_events_
              /\ locals' = IF resolved /\ found
                           THEN [locals EXCEPT ![d] =
                                   [ragged_metadata_allocs |->
                                        host_buffer_allocs_[executor],
                                    output_offsets_device_buffer |->
                                        device_buffer_allocs_[executor],
                                    start_event |->
                                        IF memcpy THEN Lookup(start_events_, executor)
                                        ELSE Null,
                                    end_event |->
                                        IF memcpy THEN Lookup(end_events_, executor)
                                        ELSE Null]]
                           ELSE locals
              /\ IF convert # OkStatus THEN ReturnError(d, convert)
                 ELSE IF collectives # OkStatus THEN ReturnError(d, collectives)
                 ELSE IF ~found \/ ~counted
                 THEN /\ status' = [status EXCEPT ![d] = "aborted"]
                      /\ UNCHANGED << pc, result >>
                 ELSE IF memcpy /\ clique_key # OkStatus
                 THEN ReturnError(d, clique_key)
                 ELSE /\ pc' = [pc EXCEPT ![d] = Transport(memcpy)]
                      /\ status' = [status EXCEPT ![d] = "running"]
                      /\ result' = [result EXCEPT ![d] = NoStatus]
    /\ UNCHANGED << inits, init_ok, config, device_count_, host_buffer_allocs_,
                    device_buffer_allocs_, num_allocs, locks, mem, host, sync, group,
                    channel, p2p_output >>


(***************************************************************************)
(* Initialize and RunNcclCollective taken apart at their mutexes: taking a *)
(* mutex, the critical section and the rest are steps of their own, so     *)
(* that the threads of different devices interleave inside them.           *)
(***************************************************************************)
ExecuteProgram ==
    << "lock_buffers", "find_buffers", "lock_events", "lookup_events", "clique_key" >>

InitializeProgram ==
    << "init_lock", "init_host", "init_device", "init_lock_events", "init_events",
       "init_return" >>

\* what only the steps of a transport change
transport_state == << mem, host, loop, sync, group, channel >>

\* the lock is still held after the closing brace
MutScopeEnd(d) == d
\* the closing brace of the block of an absl::MutexLock releases the mutex
ScopeEnd(d) == Free

\* ConvertToDeviceBuffers and GetGpuCollectives
ExecuteStart(d) ==
    /\ d \in active
    /\ d \in init_ok
    /\ pc[d] \in {"idle", "done"}
    /\ status[d] \in {"none", "ok"}
    /\ exec[d] < max_exec
    /\ exec' = [exec EXCEPT ![d] = @ + 1]
    /\ loop' = [loop EXCEPT ![d] = [i |-> 0, peer |-> 0]]
    /\ \E convert \in Outcomes("ConvertToDeviceBuffers"),
          collectives \in Outcomes("GetGpuCollectives") :
          /\ calls' = [calls EXCEPT ![d] =
                IF convert # OkStatus
                THEN << Plain("ConvertToDeviceBuffers", d, convert) >>
                ELSE << Plain("ConvertToDeviceBuffers", d, convert),
                        Plain("GetGpuCollectives", d, collectives) >>]
          /\ IF convert # OkStatus THEN ReturnError(d, convert)
             ELSE IF collectives # OkStatus THEN ReturnError(d, collectives)
             ELSE /\ pc' = [pc EXCEPT ![d] = Head(ExecuteProgram)]
                  /\ status' = [status EXCEPT ![d] = "running"]
                  /\ result' = [result EXCEPT ![d] = NoStatus]
    /\ UNCHANGED << inits, init_ok, config, device_count_, caches, locals, locks,
                    mem, host, sync, group, channel, p2p_output >>

\* absl::MutexLock lock(&mutex_);
LockBuffers(d) ==
    /\ At_(d, "lock_buffers")
    /\ mutex_ = Free
    /\ mutex_' = d
    /\ Goto(d, "find_buffers")
    /\ UNCHANGED << calls, exec, inits, init_ok, config, device_count_, caches,
                    locals, events_mutex_, transport_state, p2p_output >>

\* the two finds and their CHECKs under mutex_, the end of the block, then
\* if (should_use_memcpy())
FindBuffers(d) ==
    /\ At_(d, "find_buffers")
    /\ LET executor == StreamParent(d)
           found == /\ host_buffer_allocs_[executor] # << >>
                    /\ device_buffer_allocs_[executor] # NoEntry
           counted == ~p2p_memcpy_enabled_ \/ device_count_ # -1
       IN  IF ~found
           THEN /\ status' = [status EXCEPT ![d] = "aborted"]
                /\ UNCHANGED << pc, result, locals, mutex_ >>
           ELSE /\ locals' = [locals EXCEPT ![d] =
                      [ragged_metadata_allocs |-> host_buffer_allocs_[executor],
                       output_offsets_device_buffer |->
                           device_buffer_allocs_[executor],
                       start_event |-> Null,
                       end_event |-> Null]]
                /\ mutex_' = ScopeEnd(d)
                /\ IF ~counted
                   THEN /\ status' = [status EXCEPT ![d] = "aborted"]
                        /\ UNCHANGED << pc, result >>
                   ELSE /\ pc' = [pc EXCEPT ![d] =
                               IF should_use_memcpy(device_count_)
                               THEN "lock_events" ELSE Transport(FALSE)]
                        /\ UNCHANGED << status, result >>
    /\ UNCHANGED << calls, exec, inits, init_ok, config, device_count_, caches,
                    events_mutex_, transport_state, p2p_output >>

\* absl::MutexLock lock(&events_mutex_);
LockEvents(d) ==
    /\ At_(d, "lock_events")
    /\ events_mutex_ = Free
    /\ events_mutex_' = d
    /\ Goto(d, "lookup_events")
    /\ UNCHANGED << calls, exec, inits, init_ok, config, device_count_, caches,
                    locals, mutex_, transport_state, p2p_output >>

\* start_event = start_events_[stream.parent()].get(); the same for the end
\* event; the end of the block
LookupEvents(d) ==
    /\ At_(d, "lookup_events")
    /\ LET executor == StreamParent(d)
       IN  /\ start_events_' = [start_events_ EXCEPT ![executor] =
                                   Lookup(start_events_, executor)]
           /\ end_events_' = [end_events_ EXCEPT ![executor] =
                                 Lookup(end_events_, executor)]
           /\ locals' = [locals EXCEPT
                            ![d].start_event = Lookup(start_events_, executor),
                            ![d].end_event = Lookup(end_events_, executor)]
    /\ events_mutex_' = ScopeEnd(d)
    /\ Goto(d, "clique_key")
    /\ UNCHANGED << calls, exec, inits, init_ok, config, device_count_,
                    host_buffer_allocs_, device_buffer_allocs_, num_allocs,
                    mutex_, transport_state, p2p_output >>

\* GetGpuCliqueKey, then return RunMemCpyRaggedAllToAll(...)
GetCliqueKey(d) ==
    /\ At_(d, "clique_key")
    /\ \E clique_key \in Outcomes("GetGpuCliqueKey") :
          /\ Log(d, << Plain("GetGpuCliqueKey", d, clique_key) >>)
          /\ IF clique_key # OkStatus THEN ReturnError(d, clique_key)
             ELSE /\ pc' = [pc EXCEPT ![d] = Transport(TRUE)]
                  /\ UNCHANGED << status, result >>
    /\ UNCHANGED << fixed, transport_state >>

InitAt(d, label) == d \in active /\ pc[d] = label /\ status[d] = "initializing"

\* Initialize returns st: the MutexLocks in scope release their mutexes
InitializeReturn(d, st) ==
    /\ pc' = [pc EXCEPT ![d] = IF exec[d] = 0 THEN "idle" ELSE "done"]
    /\ status' = [status EXCEPT ![d] = IF exec[d] = 0 THEN "none" ELSE "ok"]
    /\ result' = [result EXCEPT ![d] = st]
    /\ calls' = [calls EXCEPT ![d] = << Plain("Initialize", d, st) >>]
    /\ init_ok' = IF st = OkStatus THEN init_ok \cup {d} ELSE init_ok
    /\ mutex_' = IF mutex_ = d THEN Free ELSE mutex_
    /\ events_mutex_' = IF events_mutex_ = d THEN Free ELSE events_mutex_

AllocError(name) == [code |-> "RESOURCE_EXHAUSTED", message |-> << name >>]

\* TF_RETURN_IF_ERROR(NcclCollectiveThunk::Initialize(params));
\* device_count_ = params.local_device_count;
InitializeStart(d) ==
    /\ d \in active
    /\ pc[d] \in {"idle", "done"}
    /\ status[d] \in {"none", "ok"}
    /\ inits[d] < MaxInit
    /\ inits' = [inits EXCEPT ![d] = @ + 1]
    /\ \E base_fails \in {FALSE} \cup {alloc_faults /\ d \notin init_ok} :
          IF base_fails
          THEN /\ InitializeReturn(d, AllocError("NcclCollectiveThunk::Initialize"))
               /\ UNCHANGED device_count_
          ELSE /\ device_count_' = local_device_count
               /\ pc' = [pc EXCEPT ![d] = Head(InitializeProgram)]
               /\ status' = [status EXCEPT ![d] = "initializing"]
               /\ UNCHANGED << result, calls, init_ok, locks >>
    /\ UNCHANGED << exec, config, caches, locals, transport_state, p2p_output >>

\* absl::MutexLock lock(&mutex_); held until Initialize returns
InitLock(d) ==
    /\ InitAt(d, "init_lock")
    /\ mutex_ = Free
    /\ mutex_' = d
    /\ pc' = [pc EXCEPT ![d] = "init_host"]
    /\ UNCHANGED << status, result, calls, exec, inits, init_ok, config,
                    device_count_, caches, locals, events_mutex_, transport_state,
                    p2p_output >>

\* if (!host_buffer_allocs_.contains(params.executor)): four host allocations
InitHost(d) ==
    /\ InitAt(d, "init_host")
    /\ IF HostMissing(d)
       THEN \E fail \in (IF alloc_faults THEN 1 .. kNumRaggedMetadataOperands
                         ELSE {}) \cup {NoFailure} :
               LET n == num_allocs[d]
               IN  IF fail # NoFailure
                   THEN /\ num_allocs' = [num_allocs EXCEPT ![d].host = @ + fail - 1]
                        /\ InitializeReturn(d, AllocError("HostMemoryAllocate"))
                        /\ UNCHANGED host_buffer_allocs_
                   ELSE /\ num_allocs' = [num_allocs EXCEPT ![d].host =
                                             @ + kNumRaggedMetadataOperands]
                        /\ host_buffer_allocs_' =
                              [host_buffer_allocs_ EXCEPT ![d] =
                                  [k \in 1 .. kNumRaggedMetadataOperands |->
                                      Handle(d, n.host + k)]]
                        /\ pc' = [pc EXCEPT ![d] = "init_device"]
                        /\ UNCHANGED << status, result, calls, init_ok, locks >>
       ELSE /\ pc' = [pc EXCEPT ![d] = "init_device"]
            /\ UNCHANGED << status, result, calls, init_ok, locks,
                            host_buffer_allocs_, num_allocs >>
    /\ UNCHANGED << exec, inits, config, device_count_, device_buffer_allocs_,
                    start_events_, end_events_, locals, transport_state,
                    p2p_output >>

\* if (!device_buffer_allocs_.contains(params.executor)): the device buffer;
\* then if (should_use_memcpy())
InitDevice(d) ==
    /\ InitAt(d, "init_device")
    /\ LET next == IF should_use_memcpy(device_count_) THEN "init_lock_events"
                   ELSE "init_return"
       IN  IF device_buffer_allocs_[d] = NoEntry
           THEN \E fails \in {FALSE} \cup {alloc_faults} :
                   IF fails
                   THEN /\ InitializeReturn(d, InternalError(
                               << "Failed to allocate output offsets buffer." >>))
                        /\ UNCHANGED << device_buffer_allocs_, num_allocs >>
                   ELSE /\ device_buffer_allocs_' =
                              [device_buffer_allocs_ EXCEPT ![d] =
                                  Handle(d, num_allocs[d].device + 1)]
                        /\ num_allocs' = [num_allocs EXCEPT ![d].device = @ + 1]
                        /\ pc' = [pc EXCEPT ![d] = next]
                        /\ UNCHANGED << status, result, calls, init_ok, locks >>
           ELSE /\ pc' = [pc EXCEPT ![d] = next]
                /\ UNCHANGED << status, result, calls, init_ok, locks,
                                device_buffer_allocs_, num_allocs >>
    /\ UNCHANGED << exec, inits, config, device_count_, host_buffer_allocs_,
                    start_events_, end_events_, locals, transport_state,
                    p2p_output >>

\* absl::MutexLock lock(&events_mutex_); taken while mutex_ is held
InitLockEvents(d) ==
    /\ InitAt(d, "init_lock_events")
    /\ events_mutex_ = Free
    /\ events_mutex_' = d
    /\ pc' = [pc EXCEPT ![d] = "init_events"]
    /\ UNCHANGED << status, result, calls, exec, inits, init_ok, config,
                    device_count_, caches, locals, mutex_, transport_state,
                    p2p_output >>

\* the creation of the events that are missing; the end of the inner block
InitEvents(d) ==
    /\ InitAt(d, "init_events")
    /\ \E fail \in (IF alloc_faults THEN {"start", "end"} ELSE {}) \cup {"none"} :
          LET n == num_allocs[d]
              start_tried == EventMissing(start_events_, d)
              start_fails == start_tried /\ fail = "start"
              end_tried == ~start_fails /\ EventMissing(end_events_, d)
              end_fails == end_tried /\ fail = "end"
              start_made == IF start_tried /\ ~start_fails THEN 1 ELSE 0
              end_made == IF end_tried /\ ~end_fails THEN 1 ELSE 0
          IN  /\ start_events_' =
                    [start_events_ EXCEPT ![d] =
                        IF start_made = 1 THEN Handle(d, n.event + 1) ELSE @]
              /\ end_events_' =
                    [end_events_ EXCEPT ![d] =
                        IF end_made = 1 THEN Handle(d, n.event + start_made + 1)
                        ELSE @]
              /\ num_allocs' = [num_allocs EXCEPT ![d].event =
                                   @ + start_made + end_made]
              /\ IF start_fails \/ end_fails
                 THEN InitializeReturn(d, AllocError("CreateEvent"))
                 ELSE /\ events_mutex_' = ScopeEnd(d)
                      /\ pc' = [pc EXCEPT ![d] = "init_return"]
                      /\ UNCHANGED << status, result, calls, init_ok, mutex_ >>
    /\ UNCHANGED << exec, inits, config, device_count_, host_buffer_allocs_,
                    device_buffer_allocs_, locals, transport_state, p2p_output >>

\* return absl::OkStatus();
InitReturn(d) ==
    /\ InitAt(d, "init_return")
    /\ InitializeReturn(d, OkStatus)
    /\ UNCHANGED << exec, inits, config, device_count_, caches, locals,
                    transport_state, p2p_output >>

InitializeStep(d) ==
    \/ InitializeStart(d)
    \/ InitLock(d)
    \/ InitHost(d)
    \/ InitDevice(d)
    \/ InitLockEvents(d)
    \/ InitEvents(d)
    \/ InitReturn(d)

ExecuteStep(d) ==
    \/ ExecuteStart(d)
    \/ LockBuffers(d)
    \/ FindBuffers(d)
    \/ LockEvents(d)
    \/ LookupEvents(d)
    \/ GetCliqueKey(d)

\* every thread has returned success and the streams are drained
AllDone ==
    /\ \A d \in active : pc[d] = "done" /\ status[d] = "ok" /\ exec[d] = max_exec
    /\ \A d \in Devices : StreamIdle(d)

\* The same inputs are given to a thunk that selects the other transport: the
\* output buffers of the point-to-point run are kept, every output buffer is
\* set back to its contents before the exchange, and the thunk that runs next
\* uses the memory-copy transport and is initialized on every device.
SwitchTransport ==
    /\ p2p_output.state = "pending"
    /\ ~p2p_memcpy_enabled_
    /\ AllDone
    /\ p2p_output' = [state |-> "taken",
                      output |-> [d \in Devices |-> mem[d].output]]
    /\ mem' = [d \in Devices |-> [mem[d] EXCEPT !.output = InitialOutput]]
    /\ p2p_memcpy_enabled_' = TRUE
    /\ pc' = [d \in Devices |-> "idle"]
    /\ status' = [d \in Devices |-> "none"]
    /\ result' = [d \in Devices |-> NoStatus]
    /\ calls' = [d \in Devices |-> << >>]
    /\ exec' = [d \in Devices |-> 0]
    /\ locals' = [d \in Devices |-> NoLocals]
    /\ start_events_' = InitializedCaches(active, TRUE).start_events_
    /\ end_events_' = InitializedCaches(active, TRUE).end_events_
    /\ num_allocs' = InitializedCaches(active, TRUE).num_allocs
    /\ UNCHANGED << inits, init_ok, active, comm_num_ranks, local_device_count,
                    device_count_, faults, alloc_faults, max_exec, host, loop,
                    sync, group, channel, locks, legality, convolution,
                    iteration, host_buffer_allocs_, device_buffer_allocs_ >>

MemCpyStep(d) ==
    \/ MemCpyRegister(d)
    \/ MemCpyLoad(d)
    \/ RecordStart(d)
    \/ StartRendezvous(d)
    \/ StartRendezvousReturn(d)
    \/ WaitStart(d)
    \/ MemcpyD2D(d)
    \/ RecordEnd(d)
    \/ FinishRendezvous(d)
    \/ FinishRendezvousReturn(d)
    \/ WaitEnd(d)
    \/ ReturnOk(d)

P2PStep(d) ==
    \/ P2PRegister(d)
    \/ IndexGroupStart(d)
    \/ IndexSendRecv(d)
    \/ IndexGroupEnd(d)
    \/ IndexBlock(d)
    \/ P2PLoad(d)
    \/ MainGroupStart(d)
    \/ SendRecv(d)
    \/ MainGroupEnd(d)

\* the steps of the host thread of device d under the memory-copy transport
MemCpyThread(d) == Execute(d) \/ MemCpyStep(d)

(***************************************************************************)
(* Initial states.                                                         *)
(***************************************************************************)
\* the devices of replica group c
CliqueDevices(c) == {d \in Devices : ProducerClique(d) = c}

\* The thunk right after construction (initialized = FALSE: the caches are
\* empty and the calls of Initialize may fail) or after a successful
\* Initialize on every device of `devices`.
\* metadata[d] is the content of the four metadata operands of device d;
\* `local` is the number of devices of one host node; the caches hold events
\* when the thunk is initialized and `memcpy` is set (the groups being local).
InitExchange(devices, n, memcpy, local, may_fail, executions, initialized, metadata, compare) ==
    /\ comm_num_ranks = n
    /\ p2p_memcpy_enabled_ = memcpy
    /\ local_device_count = local
    /\ device_count_ = IF initialized THEN local ELSE -1
    /\ alloc_faults = ~initialized
    /\ pc = [d \in Devices |-> "idle"]
    /\ status = [d \in Devices |-> "none"]
    /\ result = [d \in Devices |-> NoStatus]
    /\ calls = [d \in Devices |-> << >>]
    /\ exec = [d \in Devices |-> 0]
    /\ inits = [d \in Devices |-> 0]
    /\ init_ok = IF initialized THEN devices ELSE {}
    /\ active = devices
    /\ faults = may_fail
    /\ max_exec = executions
    /\ mem = [d \in Devices |->
                 [input |-> InputBuffer(d),
                  output |-> InitialOutput,
                  input_offsets |-> metadata[d].input_offsets,
                  send_sizes |-> metadata[d].send_sizes,
                  output_offsets |-> metadata[d].output_offsets,
                  recv_sizes |-> metadata[d].recv_sizes,
                  scratch |-> ZeroIndexBuffer]]
    /\ host = [d \in Devices |-> [j \in 1 .. kNumRaggedMetadataOperands |->
                                     ZeroIndexBuffer]]
    /\ loop = [d \in Devices |-> [i |-> 0, peer |-> 0]]
    /\ rendezvous_values = [d \in Devices |-> << >>]
    /\ events = [d \in Devices |-> [start |-> 0, end |-> 0]]
    /\ waited = [d \in Devices |->
                    [start |-> [q \in Devices |-> 0], end |-> [q \in Devices |-> 0]]]
    /\ copies = [d \in Devices |-> 0]
    /\ rendezvous = [kind \in {"start", "finish"} |->
                        [key \in Cliques |-> EmptyRendezvous]]
    /\ joined = [d \in Devices |-> 0]
    /\ group = [d \in Devices |-> [open |-> FALSE, ops |-> << >>]]
    /\ channel = [a \in Devices |-> [b \in Devices |-> NoChannel]]
    /\ p2p_output = [state |-> IF compare THEN "pending" ELSE "off",
                     output |-> [d \in Devices |-> InitialOutput]]
    /\ LET c == InitializedCaches(IF initialized THEN devices ELSE {}, use_memcpy)
       IN  /\ host_buffer_allocs_ = c.host_buffer_allocs_
           /\ device_buffer_allocs_ = c.device_buffer_allocs_
           /\ start_events_ = c.start_events_
           /\ end_events_ = c.end_events_
           /\ num_allocs = c.num_allocs
    /\ locals = [d \in Devices |-> NoLocals]
    /\ mutex_ = Free
    /\ events_mutex_ = Free

\* the thunk of an instruction that CheckImplementable accepted
InitThunk(devices, n, memcpy, local, may_fail, executions, initialized, metadata, compare) ==
    /\ instr = LegalInstr
    /\ implementable = CheckImplementable(instr)
    /\ NoConvolution
    /\ NoIteration
    /\ InitExchange(devices, n, memcpy, local, may_fail, executions, initialized,
                    metadata, compare)

\* the thunk initialized on every device of `devices`, cliques of NumRanks
\* ranks, the metadata the producer builds from the send sizes sz
InitWith(devices, memcpy, may_fail, executions, sz, layout, compare) ==
    InitThunk(devices, NumRanks, memcpy, Cardinality(Devices), may_fail, executions, TRUE,
              [d \in Devices |-> MetadataOf(sz, layout, d)], compare)

\* send sizes chosen freely for the devices of clique c, one row elsewhere
SizesOfClique(c) ==
    {[d \in Devices |-> [idx \in MetaIdx |->
          IF d \in CliqueDevices(c) /\ idx \in UsedIdx THEN f[d][idx]
          ELSE UnitSizes[d][idx]]] :
       f \in [CliqueDevices(c) -> [UsedIdx -> 0 .. MaxSize]]}

\* One clique; the point-to-point transport runs, then the memory-copy
\* transport on the same inputs; every valid metadata of the family; no call fails.
Init ==
    \E sz \in SizesOfClique(0), layout \in Layouts :
        InitWith(CliqueDevices(0), FALSE, FALSE, 1, sz, layout, TRUE)

Next ==
    \/ \E d \in Devices : Execute(d)
    \/ \E d \in Devices : P2PStep(d)
    \/ \E s, r \in Devices : Transfer(s, r)
    \/ SwitchTransport
    \/ \E d \in Devices : MemCpyStep(d)

Spec == Init /\ [][Next]_vars

\* One clique under the memory-copy transport, executed MaxExec times; stream
\* calls may fail.
InitMemCpy ==
    InitWith(CliqueDevices(0), TRUE, TRUE, MaxExec, UnitSizes, "ascending", FALSE)

NextMemCpy == \E d \in Devices : MemCpyThread(d)

SpecMemCpy == InitMemCpy /\ [][NextMemCpy]_vars

\* The same with no failing call; some host thread that can run does run.
InitMemCpyOk ==
    InitWith(CliqueDevices(0), TRUE, FALSE, MaxExec, UnitSizes, "ascending", FALSE)

SpecMemCpyLive ==
    /\ InitMemCpyOk
    /\ [][NextMemCpy]_vars
    /\ WF_vars(NextMemCpy)

\* One clique, one execution of either transport; every call may fail.
InitTransports ==
    \E memcpy \in BOOLEAN :
        InitWith(CliqueDevices(0), memcpy, TRUE, 1, UnitSizes, "ascending", FALSE)

NextTransports ==
    \/ \E d \in Devices : Execute(d)
    \/ \E d \in Devices : P2PStep(d)
    \/ \E s, r \in Devices : Transfer(s, r)
    \/ \E d \in Devices : MemCpyStep(d)

SpecTransports == InitTransports /\ [][NextTransports]_vars

\* raw output offsets that differ at every place of every device, counted up
\* or down
OffsetPatterns ==
    {[d \in Devices |-> [k \in 1 .. NumTotalUpdates |-> d * NumTotalUpdates + k]],
     [d \in Devices |-> [k \in 1 .. NumTotalUpdates |->
                            (d + 1) * NumTotalUpdates - k + 1]]}

\* the metadata operands of a device whose output offsets are given
WithOffsets(output_offsets) ==
    [input_offsets |-> ZeroIndexBuffer, send_sizes |-> ZeroIndexBuffer,
     output_offsets |-> output_offsets, recv_sizes |-> ZeroIndexBuffer]

\* The Offset Resolution Pass alone, on one clique of one rank or of NumRanks
\* ranks, for raw output offsets of either pattern; no call fails.
InitIndex ==
    \E n \in {1, NumRanks}, raw \in OffsetPatterns :
        InitThunk(0 .. (n - 1), n, FALSE, Cardinality(Devices), FALSE, 1, TRUE,
                  [d \in Devices |-> WithOffsets(raw[d])], FALSE)

NextIndex ==
    \/ \E d \in Devices : Execute(d)
    \/ \E d \in Devices : P2PRegister(d)
    \/ \E d \in Devices : IndexGroupStart(d)
    \/ \E d \in Devices : IndexSendRecv(d)
    \/ \E d \in Devices : IndexGroupEnd(d)
    \/ \E d \in Devices : IndexBlock(d)
    \/ \E s, r \in Devices : Transfer(s, r)

SpecIndex == InitIndex /\ [][NextIndex]_vars

\* The thunk from its construction: one clique, either transport; Initialize
\* and Execute are called on every device, up to MaxInit and MaxExec times;
\* every call of Initialize may fail.
InitLifecycle ==
    \E memcpy \in BOOLEAN :
        InitThunk(CliqueDevices(0), NumRanks, memcpy, Cardinality(Devices), FALSE, MaxExec,
                  FALSE,
                  [d \in Devices |-> MetadataOf(UnitSizes, "ascending", d)], FALSE)

NextLifecycle ==
    \/ \E d \in Devices : Initialize(d)
    \/ \E d \in Devices : Execute(d)
    \/ \E d \in Devices : P2PStep(d)
    \/ \E s, r \in Devices : Transfer(s, r)
    \/ \E d \in Devices : MemCpyStep(d)

SpecLifecycle == InitLifecycle /\ [][NextLifecycle]_vars

\* The thunk from its construction, with or without the caller's opt-in and
\* for every number of devices per host node; one clique runs one execution;
\* every call of Initialize may fail.
InitDispatch ==
    \E memcpy \in BOOLEAN, local \in 1 .. Cardinality(Devices) :
        InitThunk(CliqueDevices(0), NumRanks, memcpy, local, FALSE, 1, FALSE,
                  [d \in Devices |-> MetadataOf(UnitSizes, "ascending", d)], FALSE)

NextDispatch ==
    \/ \E d \in Devices : Initialize(d)
    \/ \E d \in Devices : Execute(d)
    \/ \E d \in Devices : P2PStep(d)
    \/ \E s, r \in Devices : Transfer(s, r)
    \/ \E d \in Devices : MemCpyStep(d)

SpecDispatch == InitDispatch /\ [][NextDispatch]_vars

\* The thunk from its construction, Initialize and Execute taken apart at
\* their mutexes: one clique, either transport, one execution per device;
\* every call of Initialize may fail.
InitLocks ==
    \E memcpy \in BOOLEAN :
        InitThunk(CliqueDevices(0), NumRanks, memcpy, Cardinality(Devices), FALSE, 1,
                  FALSE,
                  [d \in Devices |-> MetadataOf(UnitSizes, "ascending", d)], FALSE)

NextLocks ==
    \/ \E d \in Devices : InitializeStep(d)
    \/ \E d \in Devices : ExecuteStep(d)
    \/ \E d \in Devices : P2PStep(d)
    \/ \E s, r \in Devices : Transfer(s, r)
    \/ \E d \in Devices : MemCpyStep(d)

SpecLocks == InitLocks /\ [][NextLocks]_vars

\* The static check of every instruction of the family, before the thunk of
\* the instruction runs.
InitLegality ==
    /\ instr \in Instructions
    /\ implementable = NoStatus
    /\ NoConvolution
    /\ NoIteration
    /\ InitExchange(CliqueDevices(0), NumRanks, FALSE, Cardinality(Devices), FALSE, 1,
                    TRUE, [d \in Devices |-> MetadataOf(UnitSizes, "ascending", d)],
                    FALSE)

NextLegality == CheckLegality

SpecLegality == InitLegality /\ [][NextLegality]_vars

\* One call of EigenConv2D with any of the arguments, and the tasks it
\* scheduled; the thunk of the exchange stays idle.
InitConv ==
    /\ instr = LegalInstr
    /\ implementable = CheckImplementable(instr)
    /\ conv_args \in ConvArgs
    /\ algorithm = "none"
    /\ scheduled = {}
    /\ done_callbacks = 0
    /\ tasks = << >>
    /\ writes = {}
    /\ NoIteration
    /\ InitExchange(CliqueDevices(0), NumRanks, FALSE, Cardinality(Devices), FALSE, 1,
                    TRUE, [d \in Devices |-> MetadataOf(UnitSizes, "ascending", d)],
                    FALSE)

NextConv ==
    \/ EigenConv2D
    \/ RunTask

SpecConv == InitConv /\ [][NextConv]_vars

\* Every clique runs the memory-copy transport once; only the threads of
\* clique 0 are sure to be scheduled: the other cliques may stall anywhere.
InitCliques ==
    InitWith(Devices, TRUE, FALSE, 1, UnitSizes, "ascending", FALSE)

SpecCliques ==
    /\ InitCliques
    /\ [][NextMemCpy]_vars
    /\ \A d \in CliqueDevices(0) : WF_vars(MemCpyThread(d))

(***************************************************************************)
(* Properties.                                                             *)
(***************************************************************************)
\* updates one rank issues in one execution
UpdatesPerExecution == NumRanks * UpdatesPerReplica

\* the point-to-point run is over: every thread returned success and the
\* communicator has delivered everything
P2PFinished == ~use_memcpy /\ AllDone

\* both runs are over
BothFinished == p2p_output.state = "taken" /\ use_memcpy /\ AllDone

\* C1: from identical input buffers, metadata and initial output buffers, the
\* point-to-point transport and the memory-copy transport leave every rank's
\* output buffer with identical contents, for every valid metadata.
C1_TransportsAgree ==
    BothFinished => \A d \in active : mem[d].output = p2p_output.output[d]

\* both transports have run and a rank has received rows of another rank
C1_Witness ==
    /\ BothFinished
    /\ \E d \in active :
          /\ mem[d].output = p2p_output.output[d]
          /\ \E k \in 1 .. BufElems : \E q \in active \ {d} :
                 mem[d].output[k] \in {mem[q].input[j] : j \in 1 .. BufElems}

\* the elements sender s holds for update i of receiver r, and the elements at
\* the place of r's output buffer that r's resolved offsets give for (s, i)
SentRows(s, r, i) ==
    LET idx == RankOf(r) * UpdatesPerReplica + i
    IN  ReadAt(mem[s].input,
               At(mem[s].input_offsets, idx) * RowElementSize,
               At(mem[s].send_sizes, idx) * RowElementSize)

ReceivedRows(s, r, i) ==
    LET idx == RankOf(r) * UpdatesPerReplica + i
        at == RankOf(s) * UpdatesPerReplica + i
    IN  ReadAt(mem[r].output,
               At(mem[r].scratch, at) * RowElementSize,
               At(mem[s].send_sizes, idx) * RowElementSize)

\* C10: after a successful point-to-point exchange, for every sender s, receiver
\* r and update row i, the send_sizes_s[r*n+i]*rowElementSize elements of s's
\* input at input_offsets_s[r*n+i]*rowElementSize are found, element for
\* element, in r's output at resolved_r[s*n+i]*rowElementSize.
C10_RowsArrive ==
    P2PFinished =>
        \A s \in active, r \in active, i \in 0 .. (UpdatesPerReplica - 1) :
            ReceivedRows(s, r, i) = SentRows(s, r, i)

\* rank 0 has sent one row to rank 1 and it has arrived
C10_Witness ==
    /\ P2PFinished
    /\ \E i \in 0 .. (UpdatesPerReplica - 1) :
          /\ Len(SentRows(0, 1, i)) = RowElementSize
          /\ ReceivedRows(0, 1, i) = SentRows(0, 1, i)

\* device q has arrived at the start rendezvous of its k-th execution
Arrived(q, k) ==
    LET st == rendezvous["start"][CliqueOf(q)]
    IN  \/ /\ k >= 1
           /\ k <= Len(st.results)
           /\ \E j \in 1 .. Len(st.results[k]) : st.results[k][j].output_buffer = q
        \/ /\ k = Len(st.results) + 1
           /\ \E j \in 1 .. Len(st.arrivals) : st.arrivals[j].device = q

\* device q has arrived at the finish rendezvous of its k-th execution: it has
\* gone past the call in that execution
ArrivedAtFinish(q, k) ==
    \/ exec[q] > k
    \/ exec[q] = k /\ \/ pc[q] \in {"in_finish_rendezvous", "wait_end", "return_ok"}
                      \/ pc[q] = "done" /\ status[q] = "ok"

\* the thread has returned from the start rendezvous of its current execution
PastStartRendezvous(d) ==
    /\ exec[d] >= 1
    /\ \/ pc[d] \in {"wait_start", "copy", "record_end", "finish_rendezvous",
                     "in_finish_rendezvous", "wait_end", "return_ok"}
       \/ pc[d] = "done" /\ status[d] = "ok"

\* the thread has returned from the finish rendezvous of its current execution
PastFinishRendezvous(d) ==
    /\ exec[d] >= 1
    /\ \/ pc[d] \in {"wait_end", "return_ok"}
       \/ pc[d] = "done" /\ status[d] = "ok"

\* C2: whenever rank p issues WaitFor on rank q's start event, q has already
\* issued RecordEvent on it in the same execution: q records before it enters
\* the start rendezvous, p waits after it has returned from it.
C2_StartRecordedBeforeWait ==
    \A p \in active, q \in active :
        /\ waited[p].start[q] <= events[q].start
        /\ Arrived(q, exec[q]) => events[q].start >= exec[q]
        /\ (exec[p] >= 1 /\ waited[p].start[q] >= exec[p]) => PastStartRendezvous(p)

\* in its last execution a rank has waited for the start event of another rank
C2_Witness ==
    \E p \in active : \E q \in active \ {p} :
        exec[p] = MaxExec /\ waited[p].start[q] = MaxExec

\* C3: whenever rank p issues WaitFor on rank q's end event, q has already
\* issued RecordEvent on it in the same execution: q records before it enters
\* the finish rendezvous, p waits after it has returned from it.
C3_EndRecordedBeforeWait ==
    \A p \in active, q \in active :
        /\ waited[p].end[q] <= events[q].end
        /\ (exec[q] >= 1 /\ ArrivedAtFinish(q, exec[q])) => events[q].end >= exec[q]
        /\ (exec[p] >= 1 /\ waited[p].end[q] >= exec[p]) => PastFinishRendezvous(p)

\* in its last execution a rank has waited for the end event of another rank
C3_Witness ==
    \E p \in active : \E q \in active \ {p} :
        exec[p] = MaxExec /\ waited[p].end[q] = MaxExec

\* the thread has issued a device-to-device copy in its current execution
CopyIssued(d) == exec[d] >= 1 /\ copies[d] > (exec[d] - 1) * UpdatesPerExecution

\* C4: no rank issues a copy into rank q's output buffer before q has recorded
\* its start event for that execution, and a rank issues its first copy only
\* after it has issued WaitFor on the start event of every rank of the clique.
C4_CopyAfterStartEvents ==
    \A d \in active :
        CopyIssued(d) =>
            \A q \in CliqueDevices(CliqueOf(d)) :
                /\ events[q].start >= exec[d]
                /\ waited[d].start[q] >= exec[d]

\* in its last execution a rank has issued the copies of its first update, one
\* into the output buffer of every rank
C4_Witness ==
    \E d \in active :
        /\ exec[d] = MaxExec
        /\ copies[d] = (MaxExec - 1) * UpdatesPerExecution + NumRanks
        /\ pc[d] = "copy"

\* the thread has returned success from its current execution
ReturnedOk(d) == exec[d] >= 1 /\ pc[d] = "done" /\ status[d] = "ok"

\* C5: a rank returns success only after every rank of the clique has issued
\* all of its copies for this execution and then recorded its end event, and
\* after the returning rank has issued WaitFor on every rank's end event.
C5_ReturnAfterEndEvents ==
    /\ \A d \in active :
          ReturnedOk(d) =>
              \A q \in CliqueDevices(CliqueOf(d)) :
                  /\ copies[q] >= exec[d] * UpdatesPerExecution
                  /\ events[q].end >= exec[d]
                  /\ waited[d].end[q] >= exec[d]
    /\ \A q \in active : copies[q] >= events[q].end * UpdatesPerExecution

\* a rank has returned success from its last execution while another rank of
\* the clique has not returned yet
C5_Witness ==
    \E d \in active : \E q \in active \ {d} :
        /\ ReturnedOk(d) /\ exec[d] = MaxExec
        /\ exec[q] = MaxExec /\ status[q] = "running"

\* the aggregate a thread holds is the clique's values in the order of the ranks
AggregateByRank(d) ==
    /\ Len(rendezvous_values[d]) = NumRanks
    /\ \A p \in Ranks :
          rendezvous_values[d][p + 1] = RendezvousValue(DeviceOf(CliqueOf(d), p))

OneInstancePerClique ==
    \A kind \in {"start", "finish"}, key \in Cliques :
        LET st == rendezvous[kind][key]
        IN  /\ st.num_threads \in {0, NumRanks}
            /\ \A j \in 1 .. Len(st.arrivals) :
                  /\ st.arrivals[j].name[2] = RankOf(st.arrivals[j].device)
                  /\ \A k \in 1 .. Len(st.arrivals) :
                        j # k => st.arrivals[j].name # st.arrivals[k].name

FailedBeforeStart(q) ==
    /\ status[q] = "error"
    /\ pc[q] \in {"register", "load_metadata", "record_start"}
    /\ ~Arrived(q, exec[q])

\* C8 as stated: once a rank of the clique has returned an error before it
\* arrived at the start rendezvous, no other rank of the clique returns from
\* that execution.
C8_NoOtherRankReturns ==
    [][\A q \in active :
          FailedBeforeStart(q) =>
              \A d \in CliqueDevices(CliqueOf(q)) \ {q} :
                  (exec[d] = exec[q] /\ status[d] = "running")
                      => status'[d] = "running"]_vars

\* C8, amended: a rank that has entered the start rendezvous returns from it
\* only when every rank of the clique has arrived at it in that execution;
\* while one rank has not arrived (it stalls, or has returned an error
\* earlier) no rank is past the rendezvous and none has returned success.
C8_BlockedUntilAllArrive ==
    \A d \in active :
        PastStartRendezvous(d) =>
            \A q \in CliqueDevices(CliqueOf(d)) : Arrived(q, exec[d])

\* a rank has returned an error before the start rendezvous and another rank
\* of the clique is blocked in the rendezvous
C8_Witness ==
    \E q \in active : \E d \in CliqueDevices(CliqueOf(q)) \ {q} :
        /\ FailedBeforeStart(q)
        /\ exec[d] = exec[q]
        /\ pc[d] = "in_start_rendezvous" /\ status[d] = "running"

\* every arrival an instance has counted is of a device of the instance's clique
CliquesIsolated ==
    \A kind \in {"start", "finish"}, key \in Cliques :
        LET st == rendezvous[kind][key]
        IN  /\ \A j \in 1 .. Len(st.arrivals) : CliqueOf(st.arrivals[j].device) = key
            /\ \A k \in 1 .. Len(st.results) : \A j \in 1 .. Len(st.results[k]) :
                  CliqueOf(st.results[k][j].output_buffer) = key

LastIndex(d, name) ==
    LET places == {k \in 1 .. Len(calls[d]) : calls[d][k].call = name}
    IN  IF places = {} THEN 0 ELSE CHOOSE k \in places : \A j \in places : j <= k

\* the calls d has made after the Metadata Loader returned
AfterLoader(d) ==
    SubSeq(calls[d], LastIndex(d, "BlockHostUntilDone") + 1, Len(calls[d]))

\* the calls of that name d has made, in order
CallsNamed(d, name) == SelectSeq(calls[d], LAMBDA c : c.call = name)

\* the row and the peer of the m-th pair (from 0) of the loops, rows outside
\* and peers inside, and the flattened index of the pair
PairRow(m) == m \div NumRanks
PairPeer(m) == m % NumRanks
PairIdx(m) == PairPeer(m) * UpdatesPerReplica + PairRow(m)

\* the main exchange of the point-to-point transport as section 4.3 states it
ExpectedExchange(d) ==
    [k \in 1 .. (2 * NumRanks * UpdatesPerReplica + 2) |->
        IF k = 1 THEN Plain("GroupStart", d, OkStatus)
        ELSE IF k = 2 * NumRanks * UpdatesPerReplica + 2
        THEN Plain("GroupEnd", d, OkStatus)
        ELSE LET m == (k - 2) \div 2
                 idx == PairIdx(m)
             IN  IF k % 2 = 0
                 THEN Call("Send", "input",
                           At(mem[d].input_offsets, idx) * RowElementSize,
                           At(mem[d].send_sizes, idx) * RowElementSize,
                           PairPeer(m), d, OkStatus)
                 ELSE Call("Recv", "output",
                           At(mem[d].scratch, idx) * RowElementSize,
                           At(mem[d].recv_sizes, idx) * RowElementSize,
                           PairPeer(m), d, OkStatus)]

\* C11: on a successful run the point-to-point transport issues, after the
\* metadata is loaded, exactly one GroupStart, then for every pair (row i,
\* peer p), rows in the outer loop and peers in the inner one, one Send of
\* sendSizes[idx]*rowElementSize elements at inputOffsets[idx]*rowElementSize
\* of the local input to peer p and one Recv of recvSizes[idx]*rowElementSize
\* elements at outputOffsets[idx]*rowElementSize of the local output from peer
\* p, idx = p*n + i, then exactly one GroupEnd, and nothing else.
C11_PointToPointCalls ==
    \A d \in active :
        (~use_memcpy /\ status[d] = "ok") => AfterLoader(d) = ExpectedExchange(d)

\* a rank has returned success from the point-to-point transport after it
\* sent a row to another rank and received one from it
C11_Witness ==
    \E d \in active :
        /\ ~use_memcpy /\ status[d] = "ok"
        /\ \E k, j \in 1 .. Len(calls[d]) :
              /\ calls[d][k].call = "Send" /\ calls[d][k].count = RowElementSize
              /\ calls[d][k].peer # RankOf(d)
              /\ calls[d][j].call = "Recv" /\ calls[d][j].count = RowElementSize
              /\ calls[d][j].peer # RankOf(d) /\ calls[d][j].offset > 0

\* the m-th copy (from 0) of the copy phase as section 4.4 states it: from the
\* local input into the output buffer of the device that has rank p, at the
\* rank's own unresolved output offset
ExpectedCopy(d, m) ==
    LET idx == PairIdx(m)
    IN  CopyCall("MemcpyD2D", "input",
                 At(mem[d].input_offsets, idx) * RowElementSize,
                 At(mem[d].send_sizes, idx) * RowElementSize,
                 PairPeer(m), ProducerDevice(ProducerClique(d), PairPeer(m)),
                 At(mem[d].output_offsets, idx) * RowElementSize, OkStatus)

\* C12: in the copy phase of the memory-copy transport, for every pair (row i,
\* peer p), idx = p*n + i, the rank copies sendSizes[idx]*rowElementSize
\* elements of its input at inputOffsets[idx]*rowElementSize into the output
\* buffer rank p published in the start rendezvous, at its own unresolved
\* outputOffsets[idx]*rowElementSize; it writes its own output buffer only
\* in the pairs where p is its own rank.
C12_CopyPhase ==
    \A d \in active :
        use_memcpy =>
            LET issued == CallsNamed(d, "MemcpyD2D")
            IN  /\ \A k \in 1 .. Len(issued) :
                      /\ issued[k] = ExpectedCopy(d, k - 1)
                      /\ rendezvous_values[d][issued[k].peer + 1].rank = issued[k].peer
                      /\ rendezvous_values[d][issued[k].peer + 1].output_buffer
                            = issued[k].target
                      /\ issued[k].target = d <=> issued[k].peer = RankOf(d)
                /\ status[d] = "ok" => Len(issued) = NumRanks * UpdatesPerReplica

\* a rank has returned success after copying a row into another rank's output
\* buffer at a place other than the start of the buffer
C12_Witness ==
    \E d \in active :
        /\ use_memcpy /\ status[d] = "ok"
        /\ \E k \in 1 .. Len(calls[d]) :
              /\ calls[d][k].call = "MemcpyD2D"
              /\ calls[d][k].target # d
              /\ calls[d][k].count = RowElementSize
              /\ calls[d][k].dst_offset > 0

\* the call is an operation of the main exchange: a device-to-device copy, a
\* Send out of the input buffer or a Recv into the output buffer
MainOp(c) ==
    \/ c.call = "MemcpyD2D"
    \/ c.call = "Send" /\ c.buf = "input"
    \/ c.call = "Recv" /\ c.buf = "output"

\* the call belongs to the Offset Resolution Pass: a Send out of the raw
\* output offsets or a Recv into the scratch buffer
PassOp(c) ==
    \/ c.call = "Send" /\ c.buf = "output_offsets"
    \/ c.call = "Recv" /\ c.buf = "scratch"

\* the Metadata Loader of d has returned success with call j: the four copies,
\* in the order of the arrays, and the drain of the stream
LoaderEndsAt(d, j) ==
    /\ j > kNumRaggedMetadataOperands
    /\ calls[d][j] = Plain("BlockHostUntilDone", d, OkStatus)
    /\ \A i \in 1 .. kNumRaggedMetadataOperands :
          LET c == calls[d][j - kNumRaggedMetadataOperands - 1 + i]
          IN  c.call = "Memcpy" /\ c.target = i - 1 /\ c.status = OkStatus

\* the Offset Resolution Pass of d has returned success with call j: one block
\* sent to and one received from every peer, the bracket closed, the stream
\* drained
PassEndsAt(d, j) ==
    /\ j > 1
    /\ calls[d][j] = Plain("BlockHostUntilDone", d, OkStatus)
    /\ calls[d][j - 1] = Plain("GroupEnd", d, OkStatus)
    /\ \A p \in 0 .. (comm_num_ranks - 1) :
          LET n == NumTotalUpdates \div comm_num_ranks
          IN  /\ \E k \in 1 .. (j - 1) :
                    calls[d][k] = Call("Send", "output_offsets", p * n, n, p, d,
                                       OkStatus)
              /\ \E k \in 1 .. (j - 1) :
                    calls[d][k] = Call("Recv", "scratch", p * n, n, p, d, OkStatus)

LoaderSource(i) ==
    IF i = 0 THEN {"input_offsets"}
    ELSE IF i = 1 THEN {"send_sizes"}
    ELSE IF i = 2 THEN {"output_offsets", "scratch"}
    ELSE {"recv_sizes"}

\* C15: the Metadata Loader issues the four device-to-host copies (input
\* offsets, send sizes, output offsets, recv sizes, in that order) and then
\* blocks until the stream is drained; in both transports every host read of
\* a metadata array, made to build the slice of a Send, a Recv or a copy,
\* happens only after the loader has returned success.
C15_LoadBeforeRead ==
    \A d \in active : \A k \in 1 .. Len(calls[d]) :
        LET c == calls[d][k]
        IN  /\ c.call = "Memcpy" =>
                  /\ c.target \in 0 .. (kNumRaggedMetadataOperands - 1)
                  /\ c.buf \in LoaderSource(c.target)
                  /\ c.count = NumTotalUpdates
                  /\ c.target > 0 =>
                        /\ calls[d][k - 1].call = "Memcpy"
                        /\ calls[d][k - 1].target = c.target - 1
                        /\ calls[d][k - 1].status = OkStatus
                  /\ c.target = 0 => calls[d][k - 1].call # "Memcpy"
                  /\ (c.status = OkStatus /\ k < Len(calls[d])) =>
                        IF c.target = kNumRaggedMetadataOperands - 1
                        THEN calls[d][k + 1].call = "BlockHostUntilDone"
                        ELSE calls[d][k + 1].call = "Memcpy"
            /\ MainOp(c) => \E j \in 1 .. (k - 1) : LoaderEndsAt(d, j)

\* a rank of the point-to-point transport has queued a Recv of the main
\* exchange after its loader returned
C15_Witness ==
    \E d \in active :
        /\ ~use_memcpy
        /\ \E k \in 1 .. Len(calls[d]) :
              /\ calls[d][k].call = "Recv" /\ calls[d][k].buf = "output"
              /\ \E j \in 1 .. (k - 1) : LoaderEndsAt(d, j)

\* the Metadata Loader of d has returned an error: a copy failed, or the drain
\* that follows the copies failed
LoaderFailed(d) ==
    /\ status[d] = "error"
    /\ calls[d] # << >>
    /\ LET k == Len(calls[d])
           c == calls[d][k]
       IN  /\ c.status # OkStatus
           /\ \/ c.call = "Memcpy"
              \/ c.call = "BlockHostUntilDone" /\ calls[d][k - 1].call = "Memcpy"

\* C16: if one of the four metadata copies fails or the stream reports a
\* failure while draining, the Metadata Loader returns an error, and the
\* transport then issues no Send, Recv or copy of the main exchange, opens no
\* bracket for the main exchange, records no event and enters no rendezvous.
C16_LoaderFailureStops ==
    \A d \in active :
        LoaderFailed(d) =>
            /\ result[d].code \notin {"OK", "NONE"}
            /\ \A k \in 1 .. Len(calls[d]) :
                  /\ ~MainOp(calls[d][k])
                  /\ calls[d][k].call \notin {"RecordEvent", "Rendezvous", "WaitFor"}
            /\ Len(CallsNamed(d, "GroupStart")) = IF use_memcpy THEN 0 ELSE 1
            /\ Len(CallsNamed(d, "GroupEnd")) = IF use_memcpy THEN 0 ELSE 1
            /\ ~group[d].open
            /\ events[d].start = 0 /\ events[d].end = 0
            /\ \A kind \in {"start", "finish"} :
                  LET st == rendezvous[kind][CliqueKey(d)]
                  IN  /\ \A j \in 1 .. Len(st.arrivals) : st.arrivals[j].device # d
                      /\ st.results = << >>

\* the third copy of the loader failed in the memory-copy transport while the
\* other rank waits in the start rendezvous
C16_Witness ==
    \E d \in active : \E q \in active \ {d} :
        /\ use_memcpy
        /\ LoaderFailed(d)
        /\ calls[d][Len(calls[d])].call = "Memcpy"
        /\ calls[d][Len(calls[d])].target = 2
        /\ pc[q] = "in_start_rendezvous"

\* the status the failing call of d returned
FailedCall(d) == calls[d][Len(calls[d])]

\* d stopped at its first failing call: no earlier call failed
StoppedAtFirstFailure(d) ==
    /\ calls[d] # << >>
    /\ FailedCall(d).status # OkStatus
    /\ \A k \in 1 .. (Len(calls[d]) - 1) : calls[d][k].status = OkStatus

\* C17 as stated: Execute stops at the first failing step and returns that
\* step's failure to its caller unchanged, same error code and message, for
\* every fallible step.
C17_ErrorUnchanged ==
    \A d \in active :
        status[d] = "error" =>
            /\ StoppedAtFirstFailure(d)
            /\ result[d] = FailedCall(d).status

\* C17, amended: Execute stops at the first failing step and returns that
\* step's failure unchanged, except for the stream drain of the Metadata
\* Loader: its failure is returned as an internal error whose message is
\* "Failed to complete all kernels launched on stream" followed by the
\* message of the drain's failure.
C17_ErrorUnchangedButDrain ==
    \A d \in active :
        status[d] = "error" =>
            /\ StoppedAtFirstFailure(d)
            /\ result[d] =
                  IF LoaderFailed(d) /\ FailedCall(d).call = "BlockHostUntilDone"
                  THEN InternalError(
                          << "Failed to complete all kernels launched on stream" >>
                             \o FailedCall(d).status.message)
                  ELSE FailedCall(d).status

\* the drain of the loader failed with the code ABORTED and Execute returned
\* an internal error
C17_Witness ==
    \E d \in active :
        /\ LoaderFailed(d)
        /\ FailedCall(d).call = "BlockHostUntilDone"
        /\ FailedCall(d).status.code = "ABORTED"
        /\ result[d].code = "INTERNAL"

\* C18: in the point-to-point transport, if the Send or the Recv of a pair
\* fails, no Send or Recv is issued for a later pair (nor the Recv of the pair
\* whose Send failed), and the transport returns the error of that call.
C18_FirstSendRecvFailure ==
    \A d \in active : \A k \in 1 .. Len(calls[d]) :
        (calls[d][k].call \in {"Send", "Recv"} /\ calls[d][k].status # OkStatus) =>
            /\ k = Len(calls[d])
            /\ status[d] = "error"
            /\ result[d] = calls[d][k].status

\* the Send of the second pair of the main exchange failed
C18_Witness ==
    \E d \in active :
        /\ status[d] = "error"
        /\ FailedCall(d).call = "Send" /\ MainOp(FailedCall(d))
        /\ FailedCall(d).status # OkStatus
        /\ Len(CallsNamed(d, "Recv")) = comm_num_ranks + 1

\* RunAllToAllOnIndexBuffer has returned success on d
PassReturned(d) == d \in active /\ pc[d] = "p2p_load_metadata" /\ status[d] = "running"

\* C14: for a clique of size 1 the Offset Resolution Pass writes into the
\* scratch buffer exactly the contents of the raw output-offsets buffer, and
\* leaves the raw buffer as it was.
C14_SingleRankIdentity ==
    \A d \in active :
        (comm_num_ranks = 1 /\ PassReturned(d)) =>
            /\ mem[d].scratch = mem[d].output_offsets
            /\ \E raw \in OffsetPatterns : mem[d].output_offsets = raw[d]

\* the pass has returned on the only rank of a clique and the scratch buffer
\* holds the raw offsets, none of them zero
C14_Witness ==
    \E d \in active :
        /\ comm_num_ranks = 1 /\ PassReturned(d)
        /\ mem[d].scratch = mem[d].output_offsets
        /\ \A k \in 1 .. NumTotalUpdates : mem[d].scratch[k] > 0
        /\ CallsNamed(d, "Send") =
              << Call("Send", "output_offsets", 0, NumTotalUpdates, 0, d, OkStatus) >>

\* the step is a call of Initialize on d
InitializeCalled(d) == inits'[d] # inits[d]

\* the step is the start of an execution on d
ExecuteCalled(d) == exec'[d] # exec[d]

\* C19: after one successful Initialize on a device, any further Initialize on
\* that device succeeds, allocates no host buffer, no device buffer and no
\* event, and leaves every entry of every cache, of every device, unchanged.
C19_InitializeIdempotent ==
    [][\A d \in Devices :
          (d \in init_ok /\ InitializeCalled(d)) =>
              /\ result'[d] = OkStatus
              /\ num_allocs' = num_allocs
              /\ host_buffer_allocs_' = host_buffer_allocs_
              /\ device_buffer_allocs_' = device_buffer_allocs_
              /\ start_events_' = start_events_
              /\ end_events_' = end_events_]_vars

\* Initialize has returned success on a device that had already executed, so
\* that had been initialized with success before; it is the last call the
\* bound allows
C19_Witness ==
    \E d \in active :
        /\ exec[d] >= 1
        /\ inits[d] = MaxInit
        /\ calls[d] = << Plain("Initialize", d, OkStatus) >>
        /\ num_allocs[d].host >= kNumRaggedMetadataOperands

\* C20: an Execute on a device for which Initialize has succeeded adds,
\* removes or replaces no entry of the host-buffer cache, of the device-buffer
\* cache or of the event caches, and the resources an execution has looked up
\* on a device are the ones every later execution on that device uses.
C20_ExecuteKeepsCaches ==
    [][\A d \in Devices :
          /\ (d \in init_ok /\ ExecuteCalled(d)) =>
                /\ host_buffer_allocs_' = host_buffer_allocs_
                /\ device_buffer_allocs_' = device_buffer_allocs_
                /\ start_events_' = start_events_
                /\ end_events_' = end_events_
                /\ locals'[d] # NoLocals =>
                      /\ locals'[d].ragged_metadata_allocs = host_buffer_allocs_[d]
                      /\ Len(locals'[d].ragged_metadata_allocs) =
                             kNumRaggedMetadataOperands
                      /\ locals'[d].output_offsets_device_buffer =
                             device_buffer_allocs_[d]
                      /\ use_memcpy =>
                            /\ locals'[d].start_event = start_events_[d]
                            /\ locals'[d].end_event = end_events_[d]
          /\ locals[d] # NoLocals => locals'[d] = locals[d]]_vars

\* the last execution the bound allows runs on a device, under the memory-copy
\* transport, with the resources of the caches, after Initialize was called
\* again
C20_Witness ==
    \E d \in active :
        /\ exec[d] = MaxExec /\ exec[d] >= 2
        /\ inits[d] >= 2
        /\ status[d] = "running"
        /\ use_memcpy
        /\ locals[d] # NoLocals
        /\ locals[d].start_event = start_events_[d]
        /\ locals[d].start_event \notin {Null, NoEntry}

\* C30: once the Offset Resolution Pass has returned on rank r of a clique of
\* N ranks, for every peer p and every j in 0 .. n-1 the scratch buffer of r
\* holds at p*n + j what the raw output-offsets buffer of p holds at r*n + j
\* (n the number of updates per replica), and the raw buffer of r is as it was.
C30_BlockTranspose ==
    \E raw \in OffsetPatterns :
        \A r \in active :
            /\ mem[r].output_offsets = raw[r]
            /\ PassReturned(r) =>
                  \A p \in 0 .. (comm_num_ranks - 1) :
                      \A j \in 0 .. (NumTotalUpdates \div comm_num_ranks - 1) :
                          LET n == NumTotalUpdates \div comm_num_ranks
                              peer == DeviceOf(CliqueOf(r), p)
                          IN  mem[r].scratch[p * n + j + 1] =
                                  raw[peer][RankOf(r) * n + j + 1]

\* the pass has returned on every rank of a clique of more than one rank, and
\* the scratch buffer of rank 0 differs from its raw output offsets
C30_Witness ==
    /\ comm_num_ranks > 1
    /\ \A r \in active : PassReturned(r)
    /\ mem[0].scratch # mem[0].output_offsets
    /\ mem[0].scratch[NumTotalUpdates] =
           mem[comm_num_ranks - 1].output_offsets[NumTotalUpdates \div comm_num_ranks]

Range(f) == {f[x] : x \in DOMAIN f}

\* every replica group has all its members on one host node of D devices
GroupsOnOneNode(D) ==
    \A c \in 0 .. (Cardinality(Devices) \div comm_num_ranks - 1) :
        \A p, q \in 0 .. (comm_num_ranks - 1) :
            DeviceOf(c, p) \div D = DeviceOf(c, q) \div D

\* the caller opted in and the groups are local
MemcpySelected == p2p_memcpy_enabled_ /\ GroupsOnOneNode(local_device_count)

\* the running or last execution on d entered the memory-copy transport
MemCpyRan(d) ==
    \/ status[d] = "running" /\ pc[d] \in Range(MemCpyProgram)
    \/ \E k \in 1 .. Len(calls[d]) :
          calls[d][k].call \in {"GetGpuCliqueKey", "RecordEvent", "Rendezvous",
                                "WaitFor", "MemcpyD2D"}

\* the running or last execution on d entered the point-to-point transport
P2PRan(d) ==
    \/ status[d] = "running" /\ pc[d] \in Range(P2PProgram)
    \/ \E k \in 1 .. Len(calls[d]) :
          calls[d][k].call \in {"GroupStart", "Send", "Recv", "GroupEnd"}

\* C22: an event cache gets an entry for a device only by an Initialize of
\* that device while the memory-copy transport is selected; when it is not
\* selected both event caches stay empty; when it is selected, an Execute on
\* an initialized device finds a non-null start event and a non-null end event.
C22_EventCaches ==
    [][\A d \in Devices :
          /\ (start_events_'[d] # start_events_[d] \/ end_events_'[d] # end_events_[d])
                => (InitializeCalled(d) /\ MemcpySelected)
          /\ ~MemcpySelected =>
                (start_events_'[d] = NoEntry /\ end_events_'[d] = NoEntry)
          /\ (MemcpySelected /\ ExecuteCalled(d)) =>
                /\ locals'[d].start_event \notin {Null, NoEntry}
                /\ locals'[d].end_event \notin {Null, NoEntry}
                /\ locals'[d].start_event = start_events_'[d]
                /\ locals'[d].end_event = end_events_'[d]]_vars

\* an execution runs under the memory-copy transport with the two events that
\* the second Initialize of the device completed, the first one having failed
\* after it had created the start event
C22_Witness ==
    \E d \in active :
        /\ MemcpySelected
        /\ status[d] = "running" /\ MemCpyRan(d)
        /\ inits[d] = 2
        /\ locals[d].start_event = Handle(d, 1)
        /\ locals[d].end_event = Handle(d, 2)
        /\ num_allocs[d].host = kNumRaggedMetadataOperands

\* C23: Execute dispatches to the memory-copy transport only if the caller
\* opted in and the replica groups are local, in every other case to the
\* point-to-point transport, and one execution never runs both transports.
C23_OneTransport ==
    \A d \in active :
        /\ MemCpyRan(d) => MemcpySelected
        /\ (status[d] = "running" /\ ~MemcpySelected) => P2PRan(d)
        /\ status[d] = "running" => (MemCpyRan(d) \/ P2PRan(d))
        /\ ~(MemCpyRan(d) /\ P2PRan(d))

\* the caller opted in, a group spans two nodes, and the point-to-point
\* transport has returned success
C23_Witness ==
    \E d \in active :
        /\ p2p_memcpy_enabled_ /\ ~GroupsOnOneNode(local_device_count)
        /\ status[d] = "ok" /\ pc[d] = "done"
        /\ P2PRan(d) /\ ~MemCpyRan(d)

\* C24: with the local device count D > 0 that Initialize stored, is_local()
\* is true exactly when, in every replica group, all member ids have the same
\* quotient by D.
C24_IsLocal ==
    device_count_ > 0 =>
        /\ is_local(device_count_) = GroupsOnOneNode(device_count_)
        /\ device_count_ = local_device_count

\* two groups lie on two different nodes, each confined to one node: is_local()
\* is true and the memory-copy transport runs
C24_Witness ==
    \E d \in active :
        /\ device_count_ = NumRanks
        /\ replica_groups[0][0] \div device_count_ # replica_groups[1][0] \div device_count_
        /\ is_local(device_count_)
        /\ status[d] = "running" /\ MemCpyRan(d)

\* one member of one group lies on another node than the rest of its group:
\* is_local() is false and the point-to-point transport runs though the caller
\* opted in
C24_WitnessNotLocal ==
    \E d \in active :
        /\ device_count_ = Cardinality(Devices) - 1
        /\ ~is_local(device_count_)
        /\ p2p_memcpy_enabled_ /\ status[d] = "running" /\ P2PRan(d)

\* the thread of d is inside a transport: it issues stream or communicator
\* calls, drains its stream or waits in a rendezvous
InTransport(d) ==
    status[d] = "running" /\ pc[d] \in Range(MemCpyProgram) \cup Range(P2PProgram)

\* C21: a thread holds the mutex of the buffer caches or the mutex of the
\* event caches only inside the block that looks the cache up (Execute) or
\* fills it (Initialize); it holds neither while it runs a transport, with its
\* stream drain and its rendezvous waits, nor once Execute or Initialize
\* has returned.
C21_NoLockAcrossTransport ==
    \A d \in Devices :
        /\ mutex_ = d =>
              \/ status[d] = "running" /\ pc[d] = "find_buffers"
              \/ /\ status[d] = "initializing"
                 /\ pc[d] \in {"init_host", "init_device", "init_lock_events",
                               "init_events", "init_return"}
        /\ events_mutex_ = d =>
              \/ status[d] = "running" /\ pc[d] = "lookup_events"
              \/ status[d] = "initializing" /\ pc[d] = "init_events"
        /\ (InTransport(d) \/ status[d] \in {"none", "ok", "error"}) =>
              (mutex_ # d /\ events_mutex_ # d)

\* a thread waits in the start rendezvous while the thread of another device
\* holds the mutex of the buffer caches for its lookup
C21_Witness ==
    \E d, e \in active :
        /\ d # e
        /\ status[d] = "running" /\ pc[d] = "in_start_rendezvous"
        /\ mutex_ = e /\ pc[e] = "find_buffers"
        /\ events_mutex_ = Free

\* C27: the threads that execute the thunk on different devices use disjoint
\* host metadata buffers and different offset scratch buffers, each thread
\* the ones cached for its own device.
C27_OwnBuffers ==
    \A d \in active :
        locals[d] # NoLocals =>
            /\ locals[d].ragged_metadata_allocs = host_buffer_allocs_[d]
            /\ locals[d].output_offsets_device_buffer = device_buffer_allocs_[d]
            /\ \A k \in 1 .. kNumRaggedMetadataOperands :
                  locals[d].ragged_metadata_allocs[k].owner = d
            /\ locals[d].output_offsets_device_buffer.owner = d
            /\ HostExecutor(d) = d
            /\ \A e \in active \ {d} :
                  locals[e] # NoLocals =>
                      /\ Range(locals[d].ragged_metadata_allocs)
                            \cap Range(locals[e].ragged_metadata_allocs) = {}
                      /\ locals[d].output_offsets_device_buffer #
                            locals[e].output_offsets_device_buffer

\* two threads are inside the transport at the same time and each has loaded
\* the metadata into the host arrays of its own device
C27_Witness ==
    \E d, e \in active :
        /\ d # e
        /\ InTransport(d) /\ InTransport(e)
        /\ HostExecutor(d) = d /\ HostExecutor(e) = e
        /\ host[d] # host[e]
        /\ \A x \in {d, e} : host[x][2] = mem[x].send_sizes /\ host[x][2] # ZeroIndexBuffer

\* every operand passes the operand-validity check
AllOperandsValid == \A k \in 1 .. NumOperands : instr.operands[k].supported

\* the first operand that does not
FirstInvalidOperand ==
    CHOOSE k \in 1 .. NumOperands :
        /\ ~instr.operands[k].supported
        /\ \A j \in 1 .. (k - 1) : instr.operands[j].supported

\* dimension 0 of the result is effectively the most major one: every
\* dimension that its layout places above dimension 0 has size 1
RaggedDimensionMostMajor ==
    LET m2m == instr.shape.minor_to_major
        at == CHOOSE q \in 1 .. Len(m2m) : m2m[q] = 0
    IN  \A q \in (at + 1) .. Len(m2m) : instr.shape.dimensions[m2m[q] + 1] = 1

\* the offsets operand the check looks at has 64-bit signed integers
InputOffsetsS64 == instr.operands[3].element_type = "S64"

\* the check succeeds exactly when the three conditions hold, and the first
\* condition violated, in the order operands, layout, element type, is the one
\* the error reports
LegalityInOrder ==
    /\ (implementable = OkStatus) =
          (AllOperandsValid /\ RaggedDimensionMostMajor /\ InputOffsetsS64)
    /\ ~AllOperandsValid =>
          /\ implementable.message[1] = "IsValidOperand"
          /\ implementable.message[2] = FirstInvalidOperand
    /\ (AllOperandsValid /\ ~RaggedDimensionMostMajor) =>
          implementable.message[1] = "ragged-all-to-all must have the ragged dimension (0) in the most major position in the layout"
    /\ (AllOperandsValid /\ RaggedDimensionMostMajor /\ ~InputOffsetsS64) =>
          implementable.message[1] = "RaggedAllToAllDecomposer only supports S64 offsets."

\* C25 as stated: the check succeeds exactly when the three conditions hold,
\* the first violated one determines the error, and every error is an
\* unsupported-operation (unimplemented) error.
C25_EveryErrorUnimplemented ==
    implementable # NoStatus =>
        /\ LegalityInOrder
        /\ implementable # OkStatus => implementable.code = "UNIMPLEMENTED"

\* C25, amended: the check succeeds exactly when the three conditions hold and
\* the first violated one determines the error; an unsupported operand and a
\* ragged dimension that is not the most major one give an unimplemented
\* error, an offsets operand that is not of 64-bit signed integers gives an
\* invalid-argument error.
C25_LegalityErrors ==
    implementable # NoStatus =>
        /\ LegalityInOrder
        /\ implementable # OkStatus =>
              implementable.code =
                  IF AllOperandsValid /\ RaggedDimensionMostMajor
                  THEN "INVALID_ARGUMENT" ELSE "UNIMPLEMENTED"

\* the check has rejected, for its 32-bit input offsets only, an instruction
\* whose ragged dimension is the most major one only because the dimension
\* above it has size 1
C25_Witness ==
    /\ implementable.code = "INVALID_ARGUMENT"
    /\ AllOperandsValid
    /\ instr.shape.minor_to_major = << 0, 1 >>
    /\ instr.shape.dimensions = << 2, 1 >>
    /\ instr.operands[3].element_type = "S32"

\* C26: the check never succeeds for an instruction one of whose offsets
\* operands (input offsets, output offsets) has 32-bit integers: it returns an
\* error that names the element type.
C26_RejectsInt32Offsets ==
    (/\ implementable # NoStatus
     /\ \/ instr.operands[3].element_type = "S32"
        \/ instr.operands[5].element_type = "S32") =>
        /\ implementable # OkStatus
        /\ (AllOperandsValid /\ RaggedDimensionMostMajor) =>
              implementable.message[1] = "RaggedAllToAllDecomposer only supports S64 offsets."


\* the convolution has returned and every task it scheduled has run
ConvolutionDone == algorithm # "none" /\ scheduled = {}

\* what the caller of EigenConv2D expects: GetEigenConv2DNumTasks of the same
\* arguments
ExpectedCallbacks ==
    GetEigenConv2DNumTasks(conv_args.device, conv_args.input_batch,
                           conv_args.x_stride, conv_args.y_stride,
                           conv_args.lhs_x_dilation, conv_args.lhs_y_dilation,
                           conv_args.rhs_x_dilation, conv_args.rhs_y_dilation,
                           conv_args.feature_group_count)

\* the custom transposed algorithm applies to the arguments but declines them
TransposedDeclined ==
    /\ CanUseCustomTransposedConv(conv_args.x_stride, conv_args.y_stride,
                                  conv_args.lhs_x_dilation, conv_args.lhs_y_dilation,
                                  conv_args.rhs_x_dilation, conv_args.rhs_y_dilation)
    /\ ~EigenTransposedConv2D(conv_args).returned

\* C28: on a thread pool device under the thunk runtime, once EigenConv2D has
\* returned and all its tasks have run, done_callback has been invoked
\* exactly GetEigenConv2DNumTasks(same arguments) times, on every path,
\* the path where the transposed algorithm declines included, and never more
\* often before that.
C28_CallbacksMatchNumTasks ==
    /\ done_callbacks <= ExpectedCallbacks
    /\ ConvolutionDone => done_callbacks = ExpectedCallbacks

\* the same count on the paths where the transposed algorithm does not decline
CallbacksMatchUnlessDeclined ==
    ~TransposedDeclined =>
        /\ done_callbacks <= ExpectedCallbacks
        /\ ConvolutionDone => done_callbacks = ExpectedCallbacks

\* a declined convolution has run to its end on the generic implementation
DeclinedConvolutionDone ==
    TransposedDeclined /\ ConvolutionDone /\ algorithm = "generic"


(***************************************************************************)
(* The offsets the point-to-point transport receives at.                   *)
(***************************************************************************)
\* the number of Recv calls of the main exchange among the first k calls of d
MainRecvsBefore(d, k) ==
    Len(SelectSeq(SubSeq(calls[d], 1, k),
                  LAMBDA c : c.call = "Recv" /\ c.buf = "output"))

\* the pass returned with call j1, the loader then made its copies, the one of
\* the output offsets out of the scratch buffer, and returned with call j2
PassThenLoader(d, j1, j2) ==
    /\ PassEndsAt(d, j1)
    /\ LoaderEndsAt(d, j2)
    /\ j1 < j2 - kNumRaggedMetadataOperands
    /\ calls[d][j2 - 2].target = 2
    /\ calls[d][j2 - 2].buf = "scratch"
    /\ \A m \in 1 .. j2 : ~MainOp(calls[d][m])

\* C31: in the point-to-point transport, before the first Send or Recv of the
\* main exchange is issued the Offset Resolution Pass has returned from its
\* BlockHostUntilDone and, after that, the metadata loader has copied the
\* scratch buffer (not the raw output-offsets operand) to the host and
\* returned; the offset of every Recv of the main exchange is the value the
\* pass produced: for the pair (row i, peer p), what the raw output offsets of
\* peer p hold at rank(d)*n + i.
C31_RecvAtResolvedOffsets ==
    \A d \in active :
        ~use_memcpy =>
            \A k \in 1 .. Len(calls[d]) :
                LET c == calls[d][k]
                    n == NumTotalUpdates \div comm_num_ranks
                    m == MainRecvsBefore(d, k - 1)
                    i == m \div comm_num_ranks
                    p == m % comm_num_ranks
                    peer == DeviceOf(CliqueOf(d), p)
                IN  /\ (MainOp(c) /\ c.call \in {"Send", "Recv"}) =>
                          \E j1, j2 \in 1 .. (k - 1) : PassThenLoader(d, j1, j2)
                    /\ (c.call = "Recv" /\ c.buf = "output") =>
                          /\ c.peer = p
                          /\ c.offset =
                                At(mem[peer].output_offsets, RankOf(d) * n + i)
                                    * RowElementSize

\* a rank of the point-to-point transport has queued a Recv of the main
\* exchange from another rank at a resolved offset that is not its own raw
\* output offset of that pair
C31_Witness ==
    \E d \in active :
        /\ ~use_memcpy
        /\ \E k \in 1 .. Len(calls[d]) :
              LET c == calls[d][k]
                  n == NumTotalUpdates \div comm_num_ranks
                  m == MainRecvsBefore(d, k - 1)
              IN  /\ c.call = "Recv" /\ c.buf = "output"
                  /\ c.peer # RankOf(d)
                  /\ c.count > 0
                  /\ c.offset # At(mem[d].output_offsets,
                                  (m % comm_num_ranks) * n + m \div comm_num_ranks)
                                    * RowElementSize
                  /\ \E j1, j2 \in 1 .. (k - 1) : PassThenLoader(d, j1, j2)


(***************************************************************************)
(* The cached events across executions.                                    *)
(***************************************************************************)
\* C32: when a clique runs the memory-copy transport repeatedly on the cached
\* events, rank q records its start (end) event for the next execution only
\* after every rank p of the clique has issued its WaitFor on the recording
\* of the execution before: the recordings of an event are never more than
\* one ahead of the waits any rank has issued on it, and a recording is made
\* only when every rank has issued its wait on the one before.
C32_NoRecordBeforeWait ==
    /\ [](\A q \in active : \A p \in active \cap CliqueDevices(CliqueOf(q)) :
            \A which \in {"start", "end"} :
                events[q][which] <= waited[p][which][q] + 1)
    /\ [][\A q \in active : \A which \in {"start", "end"} :
              events'[q][which] > events[q][which] =>
                  \A p \in active \cap CliqueDevices(CliqueOf(q)) :
                      waited[p][which][q] >= events[q][which]]_vars

\* a rank has recorded its start and its end event a second time, every rank
\* having waited on the first recordings
C32_Witness ==
    \E q \in active :
        /\ use_memcpy
        /\ events[q]["start"] = 2 /\ events[q]["end"] = 2
        /\ exec[q] = 2
        /\ \A p \in active : waited[p]["start"][q] >= 1 /\ waited[p]["end"][q] >= 1


(***************************************************************************)
(* A rank that fails between the two rendezvous.                           *)
(***************************************************************************)
\* the rank has returned the error of a WaitFor on a start event, of a copy or
\* of the RecordEvent of its end event
FailedAfterStart(q) ==
    /\ status[q] = "error"
    /\ pc[q] \in {"wait_start", "copy", "record_end"}

\* the rank waits in the finish rendezvous
BlockedAtFinish(p) == pc[p] = "in_finish_rendezvous" /\ status[p] = "running"

\* C33: in the memory-copy transport a rank whose WaitFor on a start event,
\* device-to-device copy or RecordEvent of the end event fails returns that
\* error at once, having entered the start rendezvous only, and stays
\* returned; no other rank of its clique is ever past the finish rendezvous
\* of that execution, and one that waits in it stays there.
C33_FailureStrandsPeers ==
    /\ [](\A q \in active :
            FailedAfterStart(q) =>
                /\ result[q] = calls[q][Len(calls[q])].status
                /\ calls[q][Len(calls[q])].call \in {"WaitFor", "MemcpyD2D", "RecordEvent"}
                /\ Len(CallsNamed(q, "Rendezvous")) = 1
                /\ \A p \in (active \cap CliqueDevices(CliqueOf(q))) \ {q} :
                      exec[p] = exec[q] /\ ~PastFinishRendezvous(p))
    /\ [][\A q \in active :
            FailedAfterStart(q) =>
                /\ FailedAfterStart(q)' /\ calls'[q] = calls[q] /\ exec'[q] = exec[q]
                /\ \A p \in (active \cap CliqueDevices(CliqueOf(q))) \ {q} :
                      BlockedAtFinish(p) => BlockedAtFinish(p)']_vars

\* a rank has returned the error of its copy and another rank of the clique
\* waits in the finish rendezvous of the same execution
C33_Witness ==
    \E q \in active : \E p \in (active \cap CliqueDevices(CliqueOf(q))) \ {q} :
        /\ FailedAfterStart(q) /\ pc[q] = "copy"
        /\ BlockedAtFinish(p)
        /\ exec[p] = exec[q]


(***************************************************************************)
(* The brackets of grouped operations.                                     *)
(***************************************************************************)
\* the GroupStart calls of d that opened a bracket
BracketsOpened(d) ==
    Len(SelectSeq(calls[d], LAMBDA c : c.call = "GroupStart" /\ c.status = OkStatus))

\* the GroupEnd calls of d
BracketsEnded(d) == Len(CallsNamed(d, "GroupEnd"))

\* the Offset Resolution Pass or the point-to-point transport has returned on d
PassOrTransportReturned(d) ==
    \/ status[d] \in {"ok", "error"}
    \/ status[d] = "running" /\ pc[d] = "p2p_load_metadata"

\* C34: on every return of the Offset Resolution Pass and of the
\* point-to-point transport, with success or with the error of any call, a
\* failed Send or Recv inside a loop included, every GroupStart that was
\* called has been matched by a GroupEnd: no bracket is left open.
C34_BracketsClosed ==
    \A d \in active :
        (~use_memcpy /\ PassOrTransportReturned(d)) =>
            /\ BracketsOpened(d) = BracketsEnded(d)
            /\ ~group[d].open

\* the same on the returns that no Send or Recv caused
BracketsClosedUnlessSendRecvFails ==
    \A d \in active :
        (/\ ~use_memcpy /\ PassOrTransportReturned(d)
         /\ ~(status[d] = "error" /\ pc[d] \in {"index_send_recv", "send_recv"})
         /\ ~(status[d] = "error" /\ calls[d][Len(calls[d])].call = "GroupEnd")) =>
            /\ BracketsOpened(d) = BracketsEnded(d)
            /\ ~group[d].open


(***************************************************************************)
(* The order in which the two mutexes are taken.                           *)
(***************************************************************************)
\* the thread is about to take the mutex of the buffer caches
WantsBuffersMutex(d) ==
    \/ At_(d, "lock_buffers")
    \/ InitAt(d, "init_lock")

\* the thread is about to take the mutex of the event caches
WantsEventsMutex(d) ==
    \/ At_(d, "lock_events")
    \/ InitAt(d, "init_lock_events")

\* C35: threads that run Initialize and Execute concurrently on the thunk
\* never deadlock on the two mutexes: the mutex of the event caches is taken
\* only by a thread that holds the mutex of the buffer caches inside
\* Initialize or that holds no mutex inside Execute, the mutex of the buffer
\* caches is never taken by a thread that holds the mutex of the event
\* caches, and the holder of the mutex of the event caches never waits for a
\* mutex, so no two threads wait for each other.
C35_NoDeadlockOnMutexes ==
    /\ [](\A d \in active :
            /\ events_mutex_ = d =>
                  /\ \/ mutex_ = d /\ status[d] = "initializing"
                     \/ mutex_ # d /\ status[d] = "running"
                  /\ ~WantsBuffersMutex(d) /\ ~WantsEventsMutex(d)
            /\ WantsBuffersMutex(d) => mutex_ # d /\ events_mutex_ # d
            /\ \A e \in active :
                  ~(/\ WantsBuffersMutex(d) /\ mutex_ = e
                    /\ WantsEventsMutex(e) /\ events_mutex_ = d))
    /\ [][\A d \in active :
            /\ (mutex_' = d /\ mutex_ # d) =>
                  events_mutex_ # d /\ WantsBuffersMutex(d)
            /\ (events_mutex_' = d /\ events_mutex_ # d) =>
                  /\ WantsEventsMutex(d)
                  /\ \/ mutex_ = d /\ status[d] = "initializing"
                     \/ mutex_ # d /\ status[d] = "running"]_vars

\* a thread inside Initialize holds both mutexes while the thread of another
\* device, inside Execute and holding no mutex, is about to take the mutex of
\* the event caches
C35_Witness ==
    \E d, e \in active :
        /\ d # e
        /\ mutex_ = d /\ events_mutex_ = d /\ InitAt(d, "init_events")
        /\ At_(e, "lock_events")


(***************************************************************************)
(* The caches under concurrent calls of Initialize.                        *)
(***************************************************************************)
\* the caches hold for d one entry of four host allocations, one device
\* buffer and, under the memory-copy transport, one start and one end event,
\* all of them resources of d
FullyCached(d) ==
    /\ Len(host_buffer_allocs_[d]) = kNumRaggedMetadataOperands
    /\ \A k \in 1 .. kNumRaggedMetadataOperands : host_buffer_allocs_[d][k].owner = d
    /\ \A j, k \in 1 .. kNumRaggedMetadataOperands :
          j # k => host_buffer_allocs_[d][j] # host_buffer_allocs_[d][k]
    /\ device_buffer_allocs_[d].owner = d
    /\ IF should_use_memcpy(device_count_)
       THEN /\ start_events_[d].owner = d
            /\ end_events_[d].owner = d
            /\ start_events_[d] # end_events_[d]
       ELSE start_events_[d] = NoEntry /\ end_events_[d] = NoEntry

OffsetsBufferError == InternalError(<< "Failed to allocate output offsets buffer." >>)

\* Initialize(d) returns from the host allocations without reaching the
\* device buffer
HostAllocationFails(d) ==
    InitAt(d, "init_host") /\ pc'[d] \notin {"init_host", "init_device"}

\* Initialize(d) returns from the allocation of the device buffer
DeviceAllocationFails(d) ==
    /\ InitAt(d, "init_device")
    /\ pc'[d] \notin {"init_device", "init_lock_events", "init_return"}

\* the number of events of d that are missing
EventsMissing(d) ==
    (IF start_events_[d] = NoEntry THEN 1 ELSE 0)
        + (IF end_events_[d] = NoEntry THEN 1 ELSE 0)

\* C37: a host-cache entry always holds four allocations. When one of the
\* host allocations of Initialize(d) fails, the error is returned and the
\* host cache gets no entry for d; when the allocation of the device buffer
\* fails, Initialize returns an error, the device cache gets no entry for d
\* and d has no event, while the host entry of d stays; a later Initialize(d)
\* allocates only the resources that are still missing.
C37_AllocationFailures ==
    /\ [](\A d \in Devices :
            host_buffer_allocs_[d] # << >> =>
                Len(host_buffer_allocs_[d]) = kNumRaggedMetadataOperands)
    /\ [][\A d \in Devices :
            /\ HostAllocationFails(d) =>
                  /\ result'[d] = AllocError("HostMemoryAllocate")
                  /\ d \notin init_ok'
                  /\ host_buffer_allocs_'[d] = << >>
                  /\ num_allocs'[d].host - num_allocs[d].host
                        < kNumRaggedMetadataOperands
            /\ DeviceAllocationFails(d) =>
                  /\ result'[d] = OffsetsBufferError
                  /\ d \notin init_ok'
                  /\ device_buffer_allocs_'[d] = NoEntry
                  /\ start_events_'[d] = NoEntry /\ end_events_'[d] = NoEntry
                  /\ num_allocs'[d].event = 0
                  /\ host_buffer_allocs_'[d] = host_buffer_allocs_[d]
                  /\ Len(host_buffer_allocs_[d]) = kNumRaggedMetadataOperands
            /\ num_allocs'[d].host # num_allocs[d].host => HostMissing(d)
            /\ num_allocs'[d].device # num_allocs[d].device =>
                  device_buffer_allocs_[d] = NoEntry
            /\ num_allocs'[d].event - num_allocs[d].event <= EventsMissing(d)]_vars

\* the allocation of the device buffer failed in the first Initialize of d,
\* and the second Initialize of d has allocated the device buffer without
\* allocating host memory again
C37_Witness ==
    \E d \in active :
        /\ inits[d] = 2
        /\ result[d] = OffsetsBufferError
        /\ InitAt(d, "init_return") \/ InitAt(d, "init_lock_events")
        /\ num_allocs[d].host = kNumRaggedMetadataOperands
        /\ num_allocs[d].device = 1
        /\ device_buffer_allocs_[d] # NoEntry


(***************************************************************************)
(* The loops over the updates, run on their own: the loop nest that        *)
(* RunRaggedAllToAll and RunMemCpyRaggedAllToAll share, for any            *)
(* config_.num_total_updates and any number of ranks; a pass records the   *)
(* host metadata it reads in place of the slices it builds from them.      *)
(***************************************************************************)
\* what a pass of the loops leaves alone
outside_loops ==
    << status, result, calls, exec, inits, init_ok, active, comm_num_ranks,
       p2p_memcpy_enabled_, local_device_count, faults, alloc_faults, max_exec,
       legality, convolution, total_updates, device_count_, locks, mem, host,
       sync, group, channel, p2p_output, caches, locals >>

\* the host arrays a pass of the loop of a transport reads at idx
ArraysRead(label) ==
    IF label = "send_recv"
    THEN {"input_offsets", "send_sizes", "output_offsets", "recv_sizes"}
    ELSE {"input_offsets", "send_sizes", "output_offsets"}

\* the thread reaches the loop nest of one of the transports
LoopEnter(d) ==
    /\ d \in active
    /\ pc[d] = "idle"
    /\ \E label \in {"send_recv", "copy"} : pc' = [pc EXCEPT ![d] = label]
    /\ loop' = [loop EXCEPT ![d] = [i |-> 0, peer |-> 0]]
    /\ UNCHANGED << reads, outside_loops >>

\* one pass of `for i < num_updates_per_replica: for peer < num_ranks`
LoopPass(d) ==
    /\ d \in active
    /\ pc[d] \in {"send_recv", "copy"}
    /\ LET num_updates_per_replica ==
               NumUpdatesPerReplica(total_updates, comm_num_ranks)
           idx == FlatIndex(loop[d].peer, num_updates_per_replica, loop[d].i)
       IN  /\ loop[d].i < num_updates_per_replica
           /\ reads' = Append(reads, [idx |-> idx, arrays |-> ArraysRead(pc[d])])
           /\ loop' = [loop EXCEPT ![d] = LoopNext(@)]
    /\ UNCHANGED << pc, outside_loops >>

\* the loop nest is left
LoopExit(d) ==
    /\ d \in active
    /\ pc[d] \in {"send_recv", "copy"}
    /\ ~(loop[d].i < NumUpdatesPerReplica(total_updates, comm_num_ranks))
    /\ pc' = [pc EXCEPT ![d] = "done"]
    /\ UNCHANGED << loop, reads, outside_loops >>

\* One thread runs the loop nest of either transport once, for every number
\* of updates up to MaxTotalUpdates and every number of ranks up to
\* MaxLoopRanks.
InitLoops ==
    /\ instr = LegalInstr
    /\ implementable = CheckImplementable(instr)
    /\ NoConvolution
    /\ total_updates \in 0 .. MaxTotalUpdates
    /\ reads = << >>
    /\ \E n \in 1 .. MaxLoopRanks :
          InitExchange({0}, n, FALSE, Cardinality(Devices), FALSE, 1, TRUE,
                       [d \in Devices |-> MetadataOf(UnitSizes, "ascending", d)],
                       FALSE)

NextLoops ==
    \/ \E d \in Devices : LoopEnter(d)
    \/ \E d \in Devices : LoopPass(d)
    \/ \E d \in Devices : LoopExit(d)

SpecLoops == InitLoops /\ [][NextLoops]_vars

\* the indices the loops have read so far
IndicesRead == {reads[k].idx : k \in 1 .. Len(reads)}

\* C38: with n = numTotalUpdates div numRanks, the loops of both transports
\* read the host metadata at every index of [0, numRanks * n) exactly once
\* and at no other index; every read is below numTotalUpdates, inside the
\* host buffers, and the last numTotalUpdates mod numRanks entries are never
\* read.
C38_EveryIndexOnce ==
    LET n == total_updates \div comm_num_ranks
        flat == 0 .. (comm_num_ranks * n - 1)
        trailing == (total_updates - (total_updates % comm_num_ranks))
                        .. (total_updates - 1)
    IN  /\ IndicesRead \subseteq flat
        /\ \A k \in 1 .. Len(reads) : reads[k].idx < total_updates
        /\ \A j, k \in 1 .. Len(reads) : j # k => reads[j].idx # reads[k].idx
        /\ IndicesRead \cap trailing = {}
        /\ pc[0] = "done" =>
              /\ IndicesRead = flat
              /\ Len(reads) = comm_num_ranks * n

\* the loops have run to their end over a number of updates that is not a
\* multiple of the number of ranks, with more than one update per rank
C38_Witness ==
    /\ pc[0] = "done"
    /\ total_updates % comm_num_ranks # 0
    /\ total_updates \div comm_num_ranks > 1
    /\ comm_num_ranks > 1
    /\ Len(reads) = comm_num_ranks * (total_updates \div comm_num_ranks)


(***************************************************************************)
(* The thread-pool path of EigenTransposedConv2D, task by task: a task     *)
(* convolves the (batch, feature group) pairs of its range one after       *)
(* another, the contraction writing the chunk of the convolution matrix of *)
(* the task and Pack2DPatches adding it to the output, and then invokes    *)
(* the callback.  Addresses are element offsets from the start of a        *)
(* buffer.                                                                 *)
(***************************************************************************)
\* the elements out_im_data[...] that Pack2DPatches adds to, as offsets from
\* out_im_data
Pack2DPatches(depth, height, width, filter_h, filter_w, pad_top, pad_bottom, pad_left, pad_right, stride_h, stride_w, feature_group_number, feature_group_count) ==
    LET w_patches_number ==
            (width + filter_w - pad_left - pad_right - 2) \div stride_w + 1
        h_patches_number ==
            (height + filter_h - pad_top - pad_bottom - 2) \div stride_h + 1
        \* Depth per feature group.
        conv_matrix_depth == depth \div feature_group_count
        w_patch_begin(w) == pad_left - filter_w + 1 + w * stride_w
        h_patch_begin(h) == pad_top - filter_h + 1 + h * stride_h
        \* the spatial points (iw, ih) of the patches
        points ==
            {<< w_patch_begin(pt[1]) + pt[3], h_patch_begin(pt[2]) + pt[4] >> :
                pt \in (0 .. (w_patches_number - 1)) \X (0 .. (h_patches_number - 1))
                          \X (0 .. (filter_w - 1)) \X (0 .. (filter_h - 1))}
    IN  \* if (iw >= 0 && iw < width && ih >= 0 && ih < height):
        \* out_im_patch_data[i + feature_group_number * conv_matrix_depth] +=
        {(pt[1] * height + pt[2]) * depth + i
             + feature_group_number * conv_matrix_depth :
            pt \in {q \in points : /\ q[1] >= 0 /\ q[1] < width
                                   /\ q[2] >= 0 /\ q[2] < height},
            i \in 0 .. (conv_matrix_depth - 1)}

\* pack_patches(batch_id, feature_group_id, task_index): the elements of the
\* output buffer it adds to
pack_patches(c, batch_id, feature_group_id) ==
    LET output_image_size == c.output_x * c.output_y
        output_offset_per_batch == output_image_size * c.kernel_filters
    IN  {batch_id * output_offset_per_batch + offset :
            offset \in Pack2DPatches(c.kernel_filters, c.output_y, c.output_x,
                                     c.kernel_y, c.kernel_x, c.padding_y_before,
                                     c.padding_y_after, c.padding_x_before,
                                     c.padding_x_after, c.lhs_y_dilation,
                                     c.lhs_x_dilation, feature_group_id,
                                     c.feature_group_count)}

\* contract(batch_id, feature_group_id, task_index): the elements of the
\* convolution matrix that the assignment to C.chip(task_index, 0) writes; C
\* is a row-major map of dimensions (num_tasks, input_image_size,
\* kernel_total_size / feature_group_count)
MutContract(c, task_index) ==
    LET input_image_size == c.input_x * c.input_y
        kernel_total_size == c.kernel_x * c.kernel_y * c.kernel_filters
        chip == input_image_size * (kernel_total_size \div c.feature_group_count)
    IN  0 .. (chip - 1)
contract(c, task_index) ==
    LET input_image_size == c.input_x * c.input_y
        kernel_total_size == c.kernel_x * c.kernel_y * c.kernel_filters
        chip == input_image_size * (kernel_total_size \div c.feature_group_count)
    IN  (task_index * chip) .. ((task_index + 1) * chip - 1)

\* auto num_convolutions = feature_group_count * input_batch;
num_convolutions(c) == c.feature_group_count * c.input_batch

\* the task size of the thread-pool branch:
\* div_ceil(num_convolutions, static_cast<Eigen::Index>(num_tasks))
task_size(c) ==
    div_ceil(num_convolutions(c),
             GetEigenTransposedConv2DNumTasks(c.device, c.input_batch,
                                              c.feature_group_count))

\* Eigen::Index start = task_index * task_size;
\* Eigen::Index end = std::min(start + task_size, num_convolutions);
TaskRange(c, task_index) ==
    LET start == task_index * task_size(c)
    IN  [start |-> start, end |-> Min(start + task_size(c), num_convolutions(c))]

\* the tasks that a thread of the pool is running
Running == {t \in DOMAIN tasks : tasks[t].callbacks = 0}

\* EigenTransposedConv2D on a thread-pool device, up to its return: the
\* buffer fits, and schedule_all(done_callback) has scheduled the tasks
ScheduleTransposed ==
    /\ algorithm = "none"
    /\ LET transposed == EigenTransposedConv2D(conv_args)
       IN  /\ transposed.returned
           /\ algorithm' = "transposed"
           /\ scheduled' = transposed.tasks
    /\ UNCHANGED << conv_args, done_callbacks, tasks, writes, exchange, iteration >>

\* a free thread of the pool starts one of the scheduled tasks
StartTask ==
    /\ Cardinality(Running) < conv_args.device
    /\ \E t \in scheduled :
          /\ scheduled' = scheduled \ {t}
          /\ tasks' = [k \in DOMAIN tasks \cup {t.task_index} |->
                          IF k = t.task_index
                          THEN [convolution_id |->
                                    TaskRange(conv_args, t.task_index).start,
                                end |-> TaskRange(conv_args, t.task_index).end,
                                convolved |-> 0,
                                callbacks |-> 0]
                          ELSE tasks[k]]
    /\ UNCHANGED << conv_args, algorithm, done_callbacks, writes, exchange, iteration >>

\* one pass of the loop of a task:
\* convolve(batch_id, feature_group_id, task_index)
Convolve(task_index) ==
    /\ task_index \in Running
    /\ LET convolution_id == tasks[task_index].convolution_id
           batch_id == convolution_id \div conv_args.feature_group_count
           feature_group_id == convolution_id % conv_args.feature_group_count
       IN  /\ convolution_id < tasks[task_index].end
           /\ writes' = writes \cup
                 {[task_index |-> task_index, batch_id |-> batch_id,
                   feature_group_id |-> feature_group_id,
                   buffer |-> "conv_matrix",
                   elements |-> contract(conv_args, task_index)],
                  [task_index |-> task_index, batch_id |-> batch_id,
                   feature_group_id |-> feature_group_id,
                   buffer |-> "out",
                   elements |-> pack_patches(conv_args, batch_id, feature_group_id)]}
           /\ tasks' = [tasks EXCEPT ![task_index].convolution_id = @ + 1,
                                     ![task_index].convolved = @ + 1]
    /\ UNCHANGED << conv_args, algorithm, scheduled, done_callbacks, exchange,
                    iteration >>

\* callback(); after the loop of the task
Callback(task_index) ==
    /\ task_index \in Running
    /\ ~(tasks[task_index].convolution_id < tasks[task_index].end)
    /\ tasks' = [tasks EXCEPT ![task_index].callbacks = @ + 1]
    /\ done_callbacks' = done_callbacks + 1
    /\ UNCHANGED << conv_args, algorithm, scheduled, writes, exchange, iteration >>

\* the arguments of the convolutions run task by task: a 2 x 2 input, a
\* 2 x 2 kernel with 6 filters and a 3 x 3 output, the input dilated by 2;
\* the padding before is 0 or 1
PoolArgs ==
    {[device |-> threads, input_batch |-> batch, feature_group_count |-> groups,
      input_x |-> 2, input_y |-> 2, kernel_x |-> 2, kernel_y |-> 2,
      kernel_filters |-> 6, output_x |-> 3, output_y |-> 3,
      padding_x_before |-> pad, padding_x_after |-> 0,
      padding_y_before |-> pad, padding_y_after |-> 0,
      lhs_x_dilation |-> 2, lhs_y_dilation |-> 2, size_of |-> size] :
        threads \in 1 .. MaxPoolThreads, batch \in 1 .. MaxPoolBatch,
        groups \in 1 .. MaxPoolGroups, pad \in {0, 1}, size \in {4}}

\* One call of EigenTransposedConv2D on a thread-pool device under the thunk
\* runtime, and the tasks it scheduled, run by the threads of the pool in any
\* interleaving.
InitPool ==
    /\ instr = LegalInstr
    /\ implementable = CheckImplementable(instr)
    /\ conv_args \in PoolArgs
    /\ algorithm = "none"
    /\ scheduled = {}
    /\ done_callbacks = 0
    /\ tasks = << >>
    /\ writes = {}
    /\ NoIteration
    /\ InitExchange(CliqueDevices(0), NumRanks, FALSE, Cardinality(Devices), FALSE, 1,
                    TRUE, [d \in Devices |-> MetadataOf(UnitSizes, "ascending", d)],
                    FALSE)

NextPool ==
    \/ ScheduleTransposed
    \/ StartTask
    \/ \E task_index \in DOMAIN tasks : Convolve(task_index)
    \/ \E task_index \in DOMAIN tasks : Callback(task_index)

SpecPool == InitPool /\ [][NextPool]_vars


\* the convolutions [start, end) of a task, as a set
RangeOf(c, task_index) ==
    TaskRange(c, task_index).start .. (TaskRange(c, task_index).end - 1)

\* every scheduled task has run to its callback
AllTasksDone ==
    algorithm = "transposed" /\ scheduled = {} /\ Running = {}

\* the (batch, feature group) pairs that have been convolved
Convolved == {<< w.batch_id, w.feature_group_id >> : w \in writes}

\* C39: with C = input_batch * feature_group_count convolutions and T
\* threads, the transposed convolution has at most T tasks; the task size
\* that EigenTransposedConv2D computes from num_tasks equals the task size
\* ceil(C / T) that num_tasks was derived from; the range of every task is
\* non-empty, the ranges are pairwise disjoint and their union is [0, C);
\* every (batch, feature group) convolution is computed exactly once.
C39_TaskSplit ==
    LET c == conv_args
        num_tasks == GetEigenTransposedConv2DNumTasks(c.device, c.input_batch,
                                                      c.feature_group_count)
        total == c.input_batch * c.feature_group_count
        indices == 0 .. (num_tasks - 1)
    IN  /\ num_tasks >= 1 /\ num_tasks <= c.device
        /\ task_size(c) = div_ceil(total, c.device)
        /\ \A t \in indices : TaskRange(c, t).start < TaskRange(c, t).end
        /\ \A t, u \in indices : t # u => RangeOf(c, t) \cap RangeOf(c, u) = {}
        /\ UNION {RangeOf(c, t) : t \in indices} = 0 .. (total - 1)
        /\ algorithm = "transposed" =>
              {t.task_index : t \in scheduled} \cup DOMAIN tasks = indices
        /\ \A t \in DOMAIN tasks :
              /\ tasks[t].convolution_id \in
                    TaskRange(c, t).start .. TaskRange(c, t).end
              /\ tasks[t].convolved = tasks[t].convolution_id - TaskRange(c, t).start
        /\ \A w \in writes :
              w.batch_id * c.feature_group_count + w.feature_group_id
                  \in RangeOf(c, w.task_index)
        /\ AllTasksDone =>
              /\ Convolved = (0 .. (c.input_batch - 1))
                                \X (0 .. (c.feature_group_count - 1))
              /\ \A t \in indices :
                    tasks[t].convolved = Cardinality(RangeOf(c, t))

\* every task has run, there are fewer tasks than threads and the last task
\* has fewer convolutions than the others
C39_Witness ==
    LET c == conv_args
        num_tasks == GetEigenTransposedConv2DNumTasks(c.device, c.input_batch,
                                                      c.feature_group_count)
    IN  /\ AllTasksDone
        /\ num_tasks > 1
        /\ num_tasks < c.device
        /\ (c.input_batch * c.feature_group_count) % task_size(c) # 0
        /\ done_callbacks = num_tasks

\* C40: the tasks of the thread pool have pairwise distinct task indices;
\* different tasks write different elements of the convolution matrix and of
\* the output buffer, different (batch, feature group) convolutions add to
\* different elements of the output buffer, and a task invokes the callback
\* once, after its last convolution.
C40_TasksWriteDisjoint ==
    /\ \A t, u \in scheduled : t.task_index = u.task_index => t = u
    /\ \A t \in scheduled : t.task_index \notin DOMAIN tasks
    /\ \A w \in writes : w.elements # {}
    /\ \A v, w \in writes :
          /\ (v.task_index # w.task_index /\ v.buffer = w.buffer) =>
                v.elements \cap w.elements = {}
          /\ (/\ v.buffer = "out" /\ w.buffer = "out"
              /\ << v.batch_id, v.feature_group_id >>
                    # << w.batch_id, w.feature_group_id >>) =>
                v.elements \cap w.elements = {}
    /\ \A t \in DOMAIN tasks :
          /\ tasks[t].callbacks \in {0, 1}
          /\ tasks[t].callbacks = 1 => tasks[t].convolution_id = tasks[t].end
    /\ done_callbacks = Cardinality({t \in DOMAIN tasks : tasks[t].callbacks = 1})

\* two tasks run at the same time, each of them after a convolution and
\* before its callback, one of them before another convolution; they have
\* convolved different feature groups of the same batch
C40_Witness ==
    \E t, u \in Running :
        /\ t # u
        /\ tasks[t].convolved >= 1
        /\ tasks[u].convolved >= 1 /\ tasks[u].convolution_id < tasks[u].end
        /\ \E v, w \in writes :
              /\ v.task_index = t /\ w.task_index = u
              /\ v.buffer = "out" /\ w.buffer = "out"
              /\ v.batch_id = w.batch_id
              /\ v.feature_group_id # w.feature_group_id

=============================================================================
